---- MODULE Spec2Model ----
(***************************************************************************)
(* Query decomposition and retrieval-augmented answering pipeline           *)
(* (app/pipelines, app/components, app/utils/cache.py).                     *)
(*                                                                         *)
(* The module holds one state machine per component under study:            *)
(*   SpecValidator  DecompositionValidator.run / run_async                  *)
(*   SpecGenerator  ExtendedCohereGenerator.run / run_async                 *)
(*   SpecEmbed      MultiQueryDenseEmbedder / MultiQuerySparseEmbedder      *)
(*   SpecRetriever  MultiQueryHybridRetriever.run_async                     *)
(*   SpecFanOut     the two embedders followed by the retriever             *)
(*   SpecFormat     MultiQueryHybridRetriever._format_documents_for_context *)
(*   SpecSingleton  threads constructing a singleton service                *)
(*   SpecConcurrent two run_pipeline calls in flight, sharing the cache      *)
(*   SpecRoundTrip  cache_result followed by get_cached_result              *)
(*   SpecPipeline   LegalDecompositionPipelineService.run_pipeline          *)
(*   SpecPipelineLive  the same with the steps of the event loop fair       *)
(*   SpecMetadata   LegalDecompositionPipelineService                       *)
(*                  ._extract_document_metadata                            *)
(*   SpecNormalize  the three places that turn a structured reply into a    *)
(*                  Questions object                                        *)
(*                                                                         *)
(* Python values are records tagged by their runtime type in field t.       *)
(* A Python str is a sequence of characters (one-character TLA+ strings).   *)
(***************************************************************************)
EXTENDS Integers, Sequences, FiniteSets, TLC

VARIABLES
    \* DecompositionValidator
    v_in, v_oq, v_out, v_pc,
    \* ExtendedCohereGenerator
    g_type, g_backend, g_out, g_pc,
    \* MultiQueryDenseEmbedder and MultiQuerySparseEmbedder
    e_qs, e_async, e_task, e_acc, e_out, e_pc,
    \* MultiQueryHybridRetriever.run_async; r_failed and r_overtook record
    \* which calls failed and whether a unit finished before an earlier one
    r_qs, r_dense, r_sparse, r_unit, r_out, r_pc, r_failed, r_overtook,
    \* the arguments each unit passed to its search and to its rerank call
    r_used,
    \* app/utils/cache.py: REDIS_CACHE_ENABLED, _redis_client, _is_connected
    \* and the content of the Redis store
    c_enabled, c_client, c_connected, c_store,
    \* one cache_result followed by one get_cached_result
    rt_pc, rt_result, rt_json, rt_ok, rt_back,
    \* run_pipeline: the state of each caller's call
    p_call,
    \* one call of a function of the orchestrator or the cache module: its
    \* argument, its position and what it returned
    f_in, f_pc, f_out,
    \* a singleton service class and the threads constructing it
    s_svc

valVars == <<v_in, v_oq, v_out, v_pc>>
genVars == <<g_type, g_backend, g_out, g_pc>>
embVars == <<e_qs, e_async, e_task, e_acc, e_out, e_pc>>
retVars == <<r_qs, r_dense, r_sparse, r_unit, r_out, r_pc, r_failed, r_overtook, r_used>>
cacheVars == <<c_enabled, c_client, c_connected, c_store>>
rtVars == <<rt_pc, rt_result, rt_json, rt_ok, rt_back>>
fnVars == <<f_in, f_pc, f_out>>
svcVars == <<cacheVars, rtVars, p_call, fnVars, s_svc>>
vars == <<valVars, genVars, embVars, retVars, svcVars>>
\* what the actions of one machine leave alone
notVal == <<genVars, embVars, retVars, svcVars>>
notGen == <<valVars, embVars, retVars, svcVars>>
notEmb == <<valVars, genVars, retVars, svcVars>>
notRet == <<valVars, genVars, embVars, svcVars>>
notSvc == <<valVars, genVars, embVars, retVars, fnVars, s_svc>>
\* what the single function calls leave alone
notFn == <<valVars, genVars, embVars, retVars, cacheVars, rtVars, p_call, s_svc>>
\* what the construction of a service leaves alone
notSgl == <<valVars, genVars, embVars, retVars, cacheVars, rtVars, p_call, fnVars>>

(***************************************************************************)
(* Bounds of the model.                                                     *)
(***************************************************************************)
\* longest question list drawn as an input
MaxQ == 2
\* longest backend reply text, in tokens
MaxReplyLen == 4

(***************************************************************************)
(* Python values.                                                           *)
(***************************************************************************)
PyNone == [t |-> "None"]
PyStr(s) == [t |-> "str", s |-> s]
PyInt(n) == [t |-> "int", n |-> n]
PyBool(b) == [t |-> "bool", b |-> b]
\* a float, held in tenths: PyFloat(9) is 0.9
PyFloat(tenths) == [t |-> "float", tenths |-> tenths]
PyList(items) == [t |-> "list", items |-> items]
PyTuple(items) == [t |-> "tuple", items |-> items]
PyDict(kv) == [t |-> "dict", kv |-> kv]
\* an instance of some other class, with the attributes attrs
PyObj(attrs) == [t |-> "object", attrs |-> attrs]
\* an attribute whose getter raises something other than AttributeError
RaisingProperty == [t |-> "raising_property"]

\* app.models.Question and app.models.Questions instances
Question(q, a) == [t |-> "Question", question |-> q, answer |-> a]
Questions(qs) == [t |-> "Questions", questions |-> qs]

\* the outcome of an evaluation that may raise
Ok(v) == [raised |-> FALSE, v |-> v]
Raised(e) == [raised |-> TRUE, exc |-> e]

\* all sequences over S of length at most n
SeqUpTo(S, n) == UNION {[1..k -> S] : k \in 0..n}

\* sub-question texts and answers the generation backend may produce
SubTexts == {<<"s">>, <<"t">>}
Answers == {PyNone, PyStr(<<"x">>)}
QuestionObjs == {Question(q, a) : q \in SubTexts, a \in Answers}
QuestionSets == {Questions(qs) : qs \in SeqUpTo(QuestionObjs, MaxQ)}

\* original questions a caller may ask (the empty string included)
OrigQuestions == {<<>>, <<"a">>, <<"A", " ">>}

(***************************************************************************)
(* pydantic validation of the two models (app/models.py).                   *)
(***************************************************************************)
\* Question.model_validate(v), also applied to every element of a
\* Questions(questions=[...]) argument: an instance is kept, a mapping needs
\* a str "question" and an optional str-or-None "answer".
QuestionModelValidate(v) ==
    IF v.t = "Question" THEN Ok(v)
    ELSE IF /\ v.t = "dict"
            /\ "question" \in DOMAIN v.kv
            /\ v.kv.question.t = "str"
            /\ ("answer" \in DOMAIN v.kv => v.kv.answer.t \in {"str", "None"})
         THEN Ok(Question(v.kv.question.s,
                          IF "answer" \in DOMAIN v.kv THEN v.kv.answer ELSE PyNone))
         ELSE Raised("ValidationError")

\* Questions(questions=lst) for a Python list lst (a TLA+ sequence of values)
QuestionsCtor(lst) ==
    IF \A i \in 1..Len(lst) : ~QuestionModelValidate(lst[i]).raised
    THEN Ok(Questions([i \in 1..Len(lst) |-> QuestionModelValidate(lst[i]).v]))
    ELSE Raised("ValidationError")

(***************************************************************************)
(* DecompositionValidator (app/components/decomposition_validator.py).      *)
(***************************************************************************)
\* hasattr(v, name): TRUE / FALSE, or the exception of a raising getter
HasAttr(v, name) ==
    IF v.t = "object" /\ name \in DOMAIN v.attrs
    THEN IF v.attrs[name].t = "raising_property" THEN Raised("RuntimeError") ELSE Ok(TRUE)
    ELSE IF v.t \in {"Questions"} /\ name = "questions" THEN Ok(TRUE)
    ELSE IF v.t \in {"Question"} /\ name \in {"question", "answer"} THEN Ok(TRUE)
    ELSE Ok(FALSE)

\* body of the try block, lines 42-45: the converted object, None, or a raise
ValidatorTryConvert(questions) ==
    LET h == HasAttr(questions, "questions") IN
    IF h.raised THEN h
    ELSE IF h.v /\ questions.attrs.questions.t = "list"
         THEN QuestionsCtor(questions.attrs.questions.items)
         ELSE Ok(PyNone)

ValidatorCoerce_NoExcept(questions) ==
    IF questions.t = "None" THEN Ok(PyNone)
    ELSE IF questions.t = "Questions" THEN Ok(questions)
    ELSE ValidatorTryConvert(questions)

\* lines 32-47: questions_obj; "except Exception" leaves it None
ValidatorCoerce(questions) ==
    IF questions.t = "None" THEN Ok(PyNone)
    ELSE IF questions.t = "Questions" THEN Ok(questions)
    ELSE LET r == ValidatorTryConvert(questions) IN
         IF r.raised THEN Ok(PyNone) ELSE r

ValidatorFallback(original_question) ==
    Questions(<<Question(original_question, PyNone)>>)

ValidatorRun_NoFallbackOnEmpty(questions, original_question) ==
    LET c == ValidatorCoerce(questions) IN
    IF c.raised THEN c
    ELSE IF c.v.t = "None"
         THEN Ok([valid_questions |-> ValidatorFallback(original_question)])
         ELSE Ok([valid_questions |-> c.v])

\* DecompositionValidator.run, lines 19-63
ValidatorRun(questions, original_question) ==
    LET c == ValidatorCoerce(questions) IN
    IF c.raised THEN c
    ELSE IF c.v.t = "None" \/ Len(c.v.questions) = 0
         THEN Ok([valid_questions |-> ValidatorFallback(original_question)])
         ELSE Ok([valid_questions |-> c.v])

\* DecompositionValidator.run_async, lines 66-80: asyncio.to_thread(self.run, ...)
\* hands back the value, or re-raises the exception, of run
ValidatorRunAsync(questions, original_question) ==
    ValidatorRun(questions, original_question)

\* question mappings as a generation backend or a cache may hold them
QuestionDicts ==
    {PyDict([question |-> PyStr(q), answer |-> a]) : q \in SubTexts, a \in Answers}
    \cup {PyDict([question |-> PyStr(q)]) : q \in SubTexts}
MalformedItems == {PyDict([answer |-> PyNone]), PyInt(1), PyDict([question |-> PyInt(1)])}

\* values handed to the validator as its questions argument
ValidatorInputs ==
    {PyNone}
    \cup QuestionSets
    \cup {PyObj([questions |-> PyList(l)]) :
            l \in SeqUpTo(QuestionObjs, MaxQ) \cup SeqUpTo(QuestionDicts, 1)
                  \cup {<<m>> : m \in MalformedItems}
                  \cup {<<q, m>> : q \in QuestionObjs, m \in MalformedItems}}
    \cup {PyObj([questions |-> PyTuple(l)]) : l \in SeqUpTo(QuestionObjs, 1)}
    \cup {PyObj([questions |-> PyNone]), PyObj([questions |-> RaisingProperty]),
          PyObj([content |-> PyStr(<<"x">>)]), PyStr(<<"x">>), PyInt(1)}
    \cup {PyDict([questions |-> PyList(l)]) : l \in SeqUpTo(QuestionDicts, 1)}
    \cup {PyList(l) : l \in SeqUpTo(QuestionDicts, 1)}

NoResult == [t |-> "NoResult"]

ValIdle == v_in = PyNone /\ v_oq = <<>> /\ v_out = NoResult /\ v_pc = "idle"
GenIdle == g_type = "idle" /\ g_backend = NoResult /\ g_out = NoResult /\ g_pc = "idle"
EmbIdle ==
    /\ e_qs = Questions(<<>>) /\ e_async = <<>> /\ e_task = <<>>
    /\ e_acc = <<>> /\ e_out = <<>> /\ e_pc = <<>>

RetIdle ==
    /\ r_qs = Questions(<<>>) /\ r_dense = <<>> /\ r_sparse = <<>> /\ r_unit = <<>>
    /\ r_out = NoResult /\ r_pc = "idle" /\ r_failed = <<>> /\ r_overtook = FALSE
    /\ r_used = <<>>

CacheIdle == c_enabled = FALSE /\ c_client = "None" /\ c_connected = FALSE /\ c_store = <<>>
RtIdle ==
    /\ rt_pc = "idle" /\ rt_result = NoResult /\ rt_json = NoResult
    /\ rt_ok = NoResult /\ rt_back = NoResult
FnIdle == f_in = NoResult /\ f_pc = "idle" /\ f_out = NoResult
SglIdle == s_svc = NoResult
SvcIdle == CacheIdle /\ RtIdle /\ p_call = <<>> /\ FnIdle /\ SglIdle
CompIdle == ValIdle /\ GenIdle /\ EmbIdle /\ RetIdle /\ SglIdle

InitValidator ==
    /\ v_in \in ValidatorInputs
    /\ v_oq \in OrigQuestions
    /\ v_out = NoResult
    /\ v_pc = "call"
    /\ GenIdle /\ EmbIdle /\ RetIdle /\ SvcIdle

\* a caller invokes run(questions, original_question)
VRun ==
    /\ v_pc = "call"
    /\ v_out' = ValidatorRun(v_in, v_oq)
    /\ v_pc' = "done_run"
    /\ UNCHANGED <<v_in, v_oq, notVal>>

\* a caller awaits run_async(questions, original_question)
VRunAsync ==
    /\ v_pc = "call"
    /\ v_out' = ValidatorRunAsync(v_in, v_oq)
    /\ v_pc' = "done_run_async"
    /\ UNCHANGED <<v_in, v_oq, notVal>>

NextValidator == VRun \/ VRunAsync
SpecValidator == InitValidator /\ [][NextValidator]_vars

VDone == v_pc \in {"done_run", "done_run_async"}

(***************************************************************************)
(* Claims on the validator.                                                 *)
(***************************************************************************)
\* C1: for every input (None, a Questions of any length, any other object)
\* and every original_question string, run and run_async return
\* valid_questions as a Questions object holding at least one Question, and
\* no exception escapes.
C1_ValidatorNonEmpty ==
    VDone =>
        /\ ~v_out.raised
        /\ v_out.v.valid_questions.t = "Questions"
        /\ Len(v_out.v.valid_questions.questions) >= 1
        /\ \A i \in 1..Len(v_out.v.valid_questions.questions) :
               v_out.v.valid_questions.questions[i].t = "Question"

\* the conversion of an attribute-less or malformed input went through the
\* except branch, or the empty Questions was replaced, under run_async
C1_Witness ==
    /\ v_pc = "done_run_async"
    /\ v_in \in {PyObj([questions |-> RaisingProperty]), Questions(<<>>),
                 PyObj([questions |-> PyList(<<PyInt(1)>>)])}
    /\ ~v_out.raised
    /\ Len(v_out.v.valid_questions.questions) = 1

\* the text and answer an input element stands for
C2_TextOf(item) == IF item.t = "Question" THEN item.question ELSE item.kv.question.s
C2_AnswerOf(item) ==
    IF item.t = "Question" THEN item.answer
    ELSE IF "answer" \in DOMAIN item.kv THEN item.kv.answer ELSE PyNone
\* a well-formed element of a questions list
C2_WellFormed(item) ==
    \/ item.t = "Question"
    \/ /\ item.t = "dict"
       /\ "question" \in DOMAIN item.kv
       /\ item.kv.question.t = "str"
\* the input exposes a list of well-formed questions: its elements, else <<>>
C2_InputItems(v) ==
    IF v.t = "Questions" THEN v.questions
    ELSE IF /\ v.t = "object"
            /\ "questions" \in DOMAIN v.attrs
            /\ v.attrs.questions.t = "list"
            /\ \A i \in 1..Len(v.attrs.questions.items) :
                   C2_WellFormed(v.attrs.questions.items[i])
         THEN v.attrs.questions.items
         ELSE <<>>

\* C2: run returns the input QuestionSet unchanged (same questions, answers,
\* order) when it holds at least one question; otherwise (absent, empty, not
\* coercible) exactly [Question(question=original_question, answer=None)].
C2_ValidatorIdentityOrFallback ==
    VDone =>
        /\ ~v_out.raised
        /\ LET items == C2_InputItems(v_in)
               out == v_out.v.valid_questions
           IN  IF Len(items) >= 1
               THEN /\ Len(out.questions) = Len(items)
                    /\ \A i \in 1..Len(items) :
                           /\ out.questions[i].question = C2_TextOf(items[i])
                           /\ out.questions[i].answer = C2_AnswerOf(items[i])
                    /\ v_in.t = "Questions" => out = v_in
               ELSE out = Questions(<<Question(v_oq, PyNone)>>)

\* a two-question set came back as it went in, and an empty one was replaced
C2_Witness ==
    /\ v_pc = "done_run"
    /\ \/ v_in.t = "Questions" /\ Len(v_in.questions) = 2 /\ v_out.v.valid_questions = v_in
       \/ v_in = Questions(<<>>) /\ v_oq = <<"a">>
          /\ v_out.v.valid_questions = Questions(<<Question(<<"a">>, PyNone)>>)

(***************************************************************************)
(* ExtendedCohereGenerator (app/components/custom_generators.py).           *)
(*                                                                         *)
(* A reply text is a sequence of tokens: the braces, a prose character, and *)
(* object members, each the text of one "key": value pair.                  *)
(***************************************************************************)
\* settings.COHERE_MODEL and the names the structured branch accepts
COHERE_MODEL == "command-r-08-2024"
StructuredModels == {"command-r", "command-r-plus", "command-r-08-2024", "command-r+-08-2024"}

\* the value each member token denotes: <<key, parsed value>>
MemberValue(m) ==
    CASE m = "qs1" -> [questions |-> PyList(<<PyDict([question |-> PyStr(<<"s">>),
                                                      answer |-> PyNone])>>)]
      [] m = "qsBad" -> [questions |-> PyInt(5)]
      [] m = "foo" -> [foo |-> PyInt(1)]
      [] m = "qs2" -> [questions |-> PyList(<<PyDict([question |-> PyStr(<<"s">>),
                                                      answer |-> PyNone]),
                                              PyDict([question |-> PyStr(<<"t">>),
                                                      answer |-> PyNone])>>)]
      [] m = "qa1" -> [questions |-> PyList(<<PyDict([question |-> PyStr(<<"s">>),
                                                      answer |-> PyStr(<<"x">>)])>>)]
MemberTokens == {"qs1", "qsBad", "foo"}
\* members of the replies the pipeline's backends give
PipeMemberTokens == {"qs2", "qa1"}
ReplyTokens == {"{", "}", "x"} \cup MemberTokens
ReplyTexts == SeqUpTo(ReplyTokens, MaxReplyLen)

\* str.find(c) and str.rfind(c): 0-based index, -1 when absent
Find(text, c) ==
    IF \E i \in 1..Len(text) : text[i] = c
    THEN (CHOOSE i \in 1..Len(text) : text[i] = c /\ \A j \in 1..(i-1) : text[j] # c) - 1
    ELSE -1
RFind(text, c) ==
    IF \E i \in 1..Len(text) : text[i] = c
    THEN (CHOOSE i \in 1..Len(text) : text[i] = c /\ \A j \in (i+1)..Len(text) : text[j] # c) - 1
    ELSE -1
\* text[a:b] for 0 <= a <= b <= len(text)
Slice(text, a, b) == SubSeq(text, a + 1, b)

\* json.loads(text): an object with no member or one member, else JSONDecodeError
JsonLoads(text) ==
    IF text = <<"{", "}">> THEN Ok(PyDict(<<>>))
    ELSE IF Len(text) = 3 /\ text[1] = "{" /\ text[3] = "}"
            /\ text[2] \in MemberTokens \cup PipeMemberTokens
         THEN Ok(PyDict(MemberValue(text[2])))
         ELSE Raised("JSONDecodeError")

\* Questions.model_validate(v): a mapping whose "questions", when present,
\* is a list of valid questions; unknown keys are ignored
QuestionsModelValidate(v) ==
    IF v.t = "Questions" THEN Ok(v)
    ELSE IF v.t # "dict" THEN Raised("ValidationError")
    ELSE IF "questions" \notin DOMAIN v.kv THEN Ok(Questions(<<>>))
    ELSE IF v.kv.questions.t # "list" THEN Raised("ValidationError")
    ELSE QuestionsCtor(v.kv.questions.items)

\* Questions.model_validate_json(text)
QuestionsModelValidateJson(text) ==
    LET j == JsonLoads(text) IN
    IF j.raised THEN Raised("ValidationError") ELSE QuestionsModelValidate(j.v)

\* lines 219-236, the try body of _parse_structured_output
ParseTry(text) ==
    LET json_start == Find(text, "{")
        json_end == RFind(text, "}") + 1
    IN  IF 0 <= json_start /\ json_start < json_end
        THEN LET parsed_data == JsonLoads(Slice(text, json_start, json_end)) IN
             IF parsed_data.raised THEN parsed_data
             ELSE QuestionsModelValidate(parsed_data.v)
        ELSE QuestionsModelValidateJson(text)

\* _parse_structured_output for model_type = Questions, lines 213-247
ParseStructuredOutput(text) ==
    LET r == ParseTry(text) IN
    IF r.raised THEN Ok(Questions(<<>>)) ELSE r

\* lines 163-173 (86-97 in run): replies[0] parsed, after the backend call
GenStructuredTry(backend) ==
    IF backend.raised THEN backend
    ELSE IF Len(backend.v.replies) = 0 THEN Raised("IndexError")
    ELSE LET structured_output == ParseStructuredOutput(backend.v.replies[1]) IN
         IF structured_output.raised THEN structured_output
         ELSE Ok([replies |-> backend.v.replies, meta |-> backend.v.meta,
                  structured_reply |-> structured_output.v])

\* lines 174-188 (98-112 in run): the except branch for model_type = Questions
GenStructuredExcept(e) ==
    Ok([replies |-> <<<<"Error generating structured response">>>>,
        meta |-> <<e>>,
        structured_reply |-> Questions(<<>>)])

\* the structured branch is taken: lines 66-67 and 136-137
UsesStructuredOutput(model_type) ==
    model_type # "None" /\ COHERE_MODEL \in StructuredModels

\* ExtendedCohereGenerator.run, lines 54-121
GeneratorRun(model_type, backend) ==
    IF UsesStructuredOutput(model_type)
    THEN LET r == GenStructuredTry(backend) IN
         IF r.raised THEN GenStructuredExcept(r.exc) ELSE r
    ELSE IF backend.raised THEN backend
         ELSE Ok([replies |-> backend.v.replies, meta |-> backend.v.meta,
                  structured_reply |-> PyNone])

GeneratorRunAsync_NoExcept(model_type, backend) ==
    IF UsesStructuredOutput(model_type)
    THEN GenStructuredTry(backend)
    ELSE IF backend.raised THEN backend
         ELSE Ok([replies |-> backend.v.replies, meta |-> backend.v.meta,
                  structured_reply |-> PyNone])

\* ExtendedCohereGenerator.run_async, lines 124-211
GeneratorRunAsync(model_type, backend) ==
    IF UsesStructuredOutput(model_type)
    THEN LET r == GenStructuredTry(backend) IN
         IF r.raised THEN GenStructuredExcept(r.exc) ELSE r
    ELSE IF backend.raised
         THEN Ok([replies |-> <<<<"Error: ">> \o <<backend.exc>>>>,
                  meta |-> <<backend.exc>>,
                  structured_reply |-> PyNone])
         ELSE Ok([replies |-> backend.v.replies, meta |-> backend.v.meta,
                  structured_reply |-> PyNone])

\* what base_generator.run / run_async may do: raise, or return replies
BackendOutcomes ==
    {Raised("backend error")}
    \cup {Ok([replies |-> r, meta |-> <<"meta">>]) :
            r \in {<<>>} \cup {<<text>> : text \in ReplyTexts}}

InitGenerator ==
    /\ g_type \in {"Questions", "None"}
    /\ g_backend \in BackendOutcomes
    /\ g_out = NoResult
    /\ g_pc = "call"
    /\ ValIdle /\ EmbIdle /\ RetIdle /\ SvcIdle

\* a caller invokes run(prompt)
GRun ==
    /\ g_pc = "call"
    /\ g_out' = GeneratorRun(g_type, g_backend)
    /\ g_pc' = "done_run"
    /\ UNCHANGED <<g_type, g_backend, notGen>>

\* a caller awaits run_async(prompt)
GRunAsync ==
    /\ g_pc = "call"
    /\ g_out' = GeneratorRunAsync(g_type, g_backend)
    /\ g_pc' = "done_run_async"
    /\ UNCHANGED <<g_type, g_backend, notGen>>

NextGenerator == GRun \/ GRunAsync
SpecGenerator == InitGenerator /\ [][NextGenerator]_vars

GDone == g_pc \in {"done_run", "done_run_async"}

(***************************************************************************)
(* Claims on the generator.                                                 *)
(***************************************************************************)
\* the reply is prose, one JSON object from its first "{" to its last "}",
\* prose, and the object conforms to the Questions schema
C10_ConformingBodies == {<<>>, <<"qs1">>, <<"foo">>}
C10_Parseable(text) ==
    \E i, j \in 1..Len(text) :
        /\ i < j
        /\ text[i] = "{" /\ \A k \in 1..(i-1) : text[k] # "{"
        /\ text[j] = "}" /\ \A k \in (j+1)..Len(text) : text[k] # "}"
        /\ SubSeq(text, i + 1, j - 1) \in C10_ConformingBodies
C10_GenerationFailed ==
    \/ g_backend.raised
    \/ /\ ~g_backend.raised
       /\ Len(g_backend.v.replies) = 1
       /\ ~C10_Parseable(g_backend.v.replies[1])

\* C10: for the decomposer and the resolver (model_type = Questions),
\* whenever the backend call raises or its reply cannot be parsed against the
\* schema, run and run_async return structured_reply = Questions(questions=[])
\* and do not raise.
C10_EmptyOnGenerationFailure ==
    (GDone /\ g_type = "Questions" /\ C10_GenerationFailed) =>
        /\ ~g_out.raised
        /\ g_out.v.structured_reply = Questions(<<>>)

\* run_async absorbed a backend exception, or a reply whose object breaks
\* the schema
C10_Witness ==
    /\ g_pc = "done_run_async"
    /\ g_type = "Questions"
    /\ \/ g_backend.raised
       \/ ~g_backend.raised /\ g_backend.v.replies = <<<<"x", "{", "qsBad", "}">>>>
    /\ ~g_out.raised
    /\ g_out.v.structured_reply = Questions(<<>>)

(***************************************************************************)
(* MultiQueryDenseEmbedder / MultiQuerySparseEmbedder.run_async             *)
(* (app/components/embedders.py).  The two components run on the same       *)
(* QuestionSet, each on its own, in any interleaving.                       *)
(***************************************************************************)
Kinds == {"dense", "sparse"}

\* the vector the underlying model computes from one text
Embedding(kind, text) == [kind |-> kind, of |-> text]

EmbOnError_Partial(embeddings) == embeddings

\* lines 163-166 and 249-252: the except branch returns an empty list
EmbOnError(embeddings) == <<>>

\* lines 150-151 and 236-237: the gathered results, in task order
EmbGathered(results) == [i \in 1..Len(results) |-> results[i].v]

InitEmbed ==
    /\ e_qs \in QuestionSets
    /\ e_async \in [Kinds -> BOOLEAN]
    /\ e_task = [k \in Kinds |-> [i \in 1..Len(e_qs.questions) |-> NoResult]]
    /\ e_acc = [k \in Kinds |-> <<>>]
    /\ e_out = [k \in Kinds |-> NoResult]
    /\ e_pc = [k \in Kinds |-> "start"]
    /\ ValIdle /\ GenIdle /\ RetIdle /\ SvcIdle

\* run_async is entered; with hasattr(self.embedder, 'run_async') one task
\* per question is created (lines 142-146), and no task means no gather
EmbStart(k) ==
    /\ e_pc[k] = "start"
    /\ IF e_async[k] /\ Len(e_qs.questions) = 0
       THEN /\ e_out' = [e_out EXCEPT ![k] = <<>>]
            /\ e_pc' = [e_pc EXCEPT ![k] = "done"]
       ELSE /\ e_pc' = [e_pc EXCEPT ![k] = IF e_async[k] THEN "gather" ELSE "loop"]
            /\ UNCHANGED e_out
    /\ UNCHANGED <<e_qs, e_async, e_task, e_acc, notEmb>>

\* one of the gathered tasks finishes: embedder.run_async(question.question)
\* returns its result or raises
EmbTaskDone(k, i) ==
    /\ e_pc[k] = "gather"
    /\ e_task[k][i] = NoResult
    /\ \E r \in {Ok(Embedding(k, e_qs.questions[i].question)), Raised("embedding error")} :
           e_task' = [e_task EXCEPT ![k][i] = r]
    /\ UNCHANGED <<e_qs, e_async, e_acc, e_out, e_pc, notEmb>>

\* asyncio.gather raises as soon as one task has raised: the except branch
EmbGatherRaises(k) ==
    /\ e_pc[k] = "gather"
    /\ \E i \in 1..Len(e_qs.questions) : e_task[k][i] # NoResult /\ e_task[k][i].raised
    /\ e_out' = [e_out EXCEPT ![k] = EmbOnError(e_acc[k])]
    /\ e_pc' = [e_pc EXCEPT ![k] = "done"]
    /\ UNCHANGED <<e_qs, e_async, e_task, e_acc, notEmb>>

\* asyncio.gather returns once every task has returned
EmbGatherReturns(k) ==
    /\ e_pc[k] = "gather"
    /\ \A i \in 1..Len(e_qs.questions) : e_task[k][i] # NoResult /\ ~e_task[k][i].raised
    /\ e_out' = [e_out EXCEPT ![k] = EmbGathered(e_task[k])]
    /\ e_pc' = [e_pc EXCEPT ![k] = "done"]
    /\ UNCHANGED <<e_qs, e_async, e_task, e_acc, notEmb>>

\* lines 154-158 and 240-244: the next question is embedded in a worker
\* thread and appended, or the call raises and the except branch returns
EmbLoopStep(k) ==
    /\ e_pc[k] = "loop"
    /\ Len(e_acc[k]) < Len(e_qs.questions)
    /\ LET i == Len(e_acc[k]) + 1 IN
       \E r \in {Ok(Embedding(k, e_qs.questions[i].question)), Raised("embedding error")} :
           /\ e_task' = [e_task EXCEPT ![k][i] = r]
           /\ IF r.raised
              THEN /\ e_out' = [e_out EXCEPT ![k] = EmbOnError(e_acc[k])]
                   /\ e_pc' = [e_pc EXCEPT ![k] = "done"]
                   /\ UNCHANGED e_acc
              ELSE /\ e_acc' = [e_acc EXCEPT ![k] = Append(@, r.v)]
                   /\ UNCHANGED <<e_out, e_pc>>
    /\ UNCHANGED <<e_qs, e_async, notEmb>>

\* the loop is over: return {"embeddings": embeddings}
EmbLoopReturns(k) ==
    /\ e_pc[k] = "loop"
    /\ Len(e_acc[k]) = Len(e_qs.questions)
    /\ e_out' = [e_out EXCEPT ![k] = e_acc[k]]
    /\ e_pc' = [e_pc EXCEPT ![k] = "done"]
    /\ UNCHANGED <<e_qs, e_async, e_task, e_acc, notEmb>>

NextEmbed ==
    \E k \in Kinds :
        \/ EmbStart(k)
        \/ \E i \in 1..Len(e_qs.questions) : EmbTaskDone(k, i)
        \/ EmbGatherRaises(k)
        \/ EmbGatherReturns(k)
        \/ EmbLoopStep(k)
        \/ EmbLoopReturns(k)
SpecEmbed == InitEmbed /\ [][NextEmbed]_vars

EmbBothDone == e_pc = [k \in Kinds |-> "done"]
EmbN == Len(e_qs.questions)
\* some embedding call of kind k raised
EmbFailed(k) == \E i \in 1..EmbN : e_task[k][i] # NoResult /\ e_task[k][i].raised

(***************************************************************************)
(* Claims on the embedders.                                                 *)
(***************************************************************************)
\* C9 as stated: after both embedders have run, either
\* len(dense) == len(sparse) == N or both lists are empty.
C9_BothOrNeither ==
    EmbBothDone =>
        \/ Len(e_out["dense"]) = EmbN /\ Len(e_out["sparse"]) = EmbN
        \/ Len(e_out["dense"]) = 0 /\ Len(e_out["sparse"]) = 0

\* C9 as amended: after both embedders have run, each list on its own is
\* either of length N (when no call of its kind failed) or empty (when one
\* did); no list has a length strictly between 0 and N.  The two kinds fail
\* independently, so one list may have length N while the other is empty.
C9_EachAllOrNothing ==
    EmbBothDone =>
        \A k \in Kinds :
            /\ Len(e_out[k]) \in {0, EmbN}
            /\ EmbFailed(k) => Len(e_out[k]) = 0
            /\ ~EmbFailed(k) => Len(e_out[k]) = EmbN

\* the second sparse call failed after the first succeeded, while the dense
\* embedder delivered both vectors
C9_Witness ==
    /\ EmbBothDone
    /\ EmbN = 2
    /\ ~e_async["sparse"]
    /\ e_task["sparse"][1] # NoResult /\ ~e_task["sparse"][1].raised
    /\ e_task["sparse"][2] # NoResult /\ e_task["sparse"][2].raised
    /\ Len(e_out["sparse"]) = 0
    /\ Len(e_out["dense"]) = 2

(***************************************************************************)
(* MultiQueryHybridRetriever (app/components/retrievers.py).                *)
(***************************************************************************)
\* settings.DEFAULT_TOP_K
DEFAULT_TOP_K == 5

\* a haystack Document: id, content, score (a number or None) and meta
Doc(id, content, score, meta) ==
    [id |-> PyStr(<<id>>), content |-> PyStr(<<content>>), score |-> score, meta |-> meta]

\* documents of the store: two chunks of the case "T", a document without
\* title, one without any payload or score, and one whose document_id
\* payload is a list
DocA == Doc("dA", "cA", PyInt(9), [document_id |-> PyStr(<<"1">>), case_title |-> PyStr(<<"T">>)])
DocB == Doc("dB", "cB", PyInt(7), [document_id |-> PyStr(<<"2">>), case_title |-> PyStr(<<"T">>)])
DocC == Doc("dC", "cC", PyInt(7), [document_id |-> PyStr(<<"3">>)])
DocD == Doc("dD", "cD", PyNone, <<>>)
DocU == Doc("dU", "cU", PyInt(5), [document_id |-> PyList(<<>>)])

\* what one hybrid search may return, best score first
SearchResults ==
    {<<>>, <<DocA>>, <<DocA, DocB>>, <<DocB, DocC>>, <<DocC, DocD>>, <<DocA, DocU>>}

\* bool(v)
Truthy(v) ==
    CASE v.t = "None" -> FALSE
      [] v.t = "str" -> Len(v.s) > 0
      [] v.t = "int" -> v.n # 0
      [] v.t = "bool" -> v.b
      [] v.t = "float" -> v.tenths # 0
      [] v.t \in {"list", "tuple"} -> Len(v.items) > 0
      [] v.t = "dict" -> DOMAIN v.kv # {}
      [] OTHER -> TRUE

\* hash(v) is defined
Hashable(v) == v.t \notin {"list", "dict"}

TitleFields == <<"case_title", "article_title", "legislation_title">>

\* hasattr(doc, name): a Document has the attributes id, content, score and
\* meta; the dict of a formatted document has keys and none of these
\* attributes
HasDocAttr(doc, name) == {"id", "meta"} \subseteq DOMAIN doc /\ name \in DOMAIN doc

\* the first of the title fields that is in the set present, 0 when none
FirstTitleField(present) ==
    IF \E i \in 1..Len(TitleFields) : TitleFields[i] \in present
    THEN CHOOSE i \in 1..Len(TitleFields) :
             TitleFields[i] \in present /\ \A j \in 1..(i-1) : TitleFields[j] \notin present
    ELSE 0

\* MultiQueryHybridRetriever._extract_document_metadata, lines 87-112
RetExtractDocumentMetadata(doc) ==
    LET has_meta == HasDocAttr(doc, "meta") /\ DOMAIN doc.meta # {}
        document_id == IF has_meta /\ "document_id" \in DOMAIN doc.meta
                       THEN doc.meta.document_id
                       ELSE IF HasDocAttr(doc, "id") THEN doc.id ELSE PyNone
        titled == IF has_meta THEN {f \in DOMAIN doc.meta : Truthy(doc.meta[f])} ELSE {}
        k == FirstTitleField(titled)
    IN  IF k = 0
        THEN [document_id |-> document_id]
        ELSE (TitleFields[k] :> doc.meta[TitleFields[k]]) @@ [document_id |-> document_id]

\* lines 135-141: the document_id, or "<title_field>:<title>"
SourceKey(metadata) ==
    LET k == FirstTitleField(DOMAIN metadata)
    IN  IF k = 0
        THEN metadata.document_id
        ELSE PyStr(<<TitleFields[k], ":">> \o metadata[TitleFields[k]].s)

\* getattr(x, 'score', 0) or 0
ScoreKey(doc) == IF ~HasDocAttr(doc, "score") \/ doc.score.t = "None" THEN 0 ELSE doc.score.n

\* sorted(documents, key=..., reverse=True): descending and stable
InsertDesc(sorted, x) ==
    LET k == Cardinality({i \in 1..Len(sorted) : ScoreKey(sorted[i]) >= ScoreKey(x)})
    IN  SubSeq(sorted, 1, k) \o <<x>> \o SubSeq(sorted, k + 1, Len(sorted))
RECURSIVE SortedByScoreDesc(_)
SortedByScoreDesc(documents) ==
    IF documents = <<>> THEN <<>>
    ELSE InsertDesc(SortedByScoreDesc(SubSeq(documents, 1, Len(documents) - 1)),
                    documents[Len(documents)])

\* lines 130-156: the loop over sorted_docs; "source_key in seen_sources"
\* raises TypeError for an unhashable key
RECURSIVE FormatLoop(_, _, _)
FormatLoop(docs, seen_sources, formatted_docs) ==
    IF docs = <<>> THEN Ok(formatted_docs)
    ELSE LET doc == Head(docs)
             metadata == RetExtractDocumentMetadata(doc)
             source_key == SourceKey(metadata)
         IN  IF ~Hashable(source_key) THEN Raised("TypeError")
             ELSE IF source_key \in seen_sources
                  THEN FormatLoop(Tail(docs), seen_sources, formatted_docs)
                  ELSE IF ~HasDocAttr(doc, "content") THEN Raised("AttributeError")
                  ELSE FormatLoop(Tail(docs), seen_sources \cup {source_key},
                                  Append(formatted_docs,
                                         [content |-> doc.content, metadata |-> metadata]))

\* MultiQueryHybridRetriever._format_documents_for_context, lines 114-158
FormatDocumentsForContext(documents) ==
    FormatLoop(SortedByScoreDesc(documents), {}, <<>>)

\* what the ranker may return for the candidates: any relevance order of
\* them, scored by relevance, cut to top_k
Take(seq, n) == SubSeq(seq, 1, IF Len(seq) < n THEN Len(seq) ELSE n)
RerankOutcomes(candidates, top_k) ==
    LET n == Len(candidates)
        perms == {p \in [1..n -> 1..n] : \A i, j \in 1..n : p[i] = p[j] => i = j}
    IN  {Take([i \in 1..n |-> [candidates[p[i]] EXCEPT !.score = PyInt(100 - i)]], top_k) :
            p \in perms}

\* zip(queries.questions, dense_embeddings, sparse_embeddings), lines 322-324:
\* the number of tasks
RetZip_DenseReversed(questions, dense_embeddings, sparse_embeddings) ==
    LET n == Len(dense_embeddings) IN
    [i \in 1..(IF Len(questions) <= n /\ Len(questions) <= Len(sparse_embeddings)
               THEN Len(questions)
               ELSE IF n <= Len(sparse_embeddings) THEN n ELSE Len(sparse_embeddings)) |->
        [query |-> questions[i], dense_emb |-> dense_embeddings[n + 1 - i],
         sparse_emb |-> sparse_embeddings[i]]]

Min3_First(a, b, c) == a
Min3(a, b, c) == IF a <= b /\ a <= c THEN a ELSE IF b <= c THEN b ELSE c
RetTasks == Min3(Len(r_qs.questions), Len(r_dense), Len(r_sparse))

\* lines 321-324: the arguments process_query is called with for each index
RetZip(questions, dense_embeddings, sparse_embeddings) ==
    [i \in 1..Min3(Len(questions), Len(dense_embeddings), Len(sparse_embeddings)) |->
        [query |-> questions[i], dense_emb |-> dense_embeddings[i],
         sparse_emb |-> sparse_embeddings[i]]]
\* the arguments of unit i
RetArgs(i) == RetZip(r_qs.questions, r_dense, r_sparse)[i]

\* lines 311-318: the documents are formatted and the pair returned; an
\* exception of the formatter leaves process_query
RetFinishUnit(query_text, docs) ==
    LET formatted_docs == FormatDocumentsForContext(docs) IN
    IF formatted_docs.raised
    THEN [st |-> "raised", exc |-> formatted_docs.exc]
    ELSE [st |-> "returned", pair |-> [question |-> query_text, documents |-> formatted_docs.v]]

RetGathered_DropsEmpty(units) ==
    LET pairs == [i \in 1..Len(units) |-> units[i].pair]
        NonEmpty(p) == p.documents # <<>>
    IN  SelectSeq(pairs, NonEmpty)

\* lines 330-331: asyncio.gather's results, in the order of the tasks
RetGathered(units) == [i \in 1..Len(units) |-> units[i].pair]

\* the queries, and the lists the two embedders delivered: one vector per
\* question, or the empty list of a failed embedder
InitRetriever ==
    /\ r_qs \in {Questions(qs) : qs \in SeqUpTo({Question(q, PyNone) : q \in SubTexts}, MaxQ)}
    /\ r_dense \in {[i \in 1..Len(r_qs.questions) |-> Embedding("dense", r_qs.questions[i].question)],
                    <<>>}
    /\ r_sparse \in {[i \in 1..Len(r_qs.questions) |-> Embedding("sparse", r_qs.questions[i].question)],
                     <<>>}
    /\ r_unit = <<>>
    /\ r_out = NoResult
    /\ r_pc = "start"
    /\ r_failed = <<>>
    /\ r_overtook = FALSE
    /\ r_used = <<>>
    /\ ValIdle /\ GenIdle /\ EmbIdle /\ SvcIdle

\* run_async up to the gather: one task per zipped triple; no task, no gather
RetStart ==
    /\ r_pc = "start"
    /\ r_unit' = [i \in 1..RetTasks |-> [st |-> "search"]]
    /\ r_failed' = [i \in 1..RetTasks |-> {}]
    /\ r_used' = [i \in 1..RetTasks |->
                      [search |-> NoResult, rerank |-> NoResult, format |-> NoResult]]
    /\ IF RetTasks = 0
       THEN r_out' = <<>> /\ r_pc' = "done"
       ELSE r_out' = r_out /\ r_pc' = "gather"
    /\ UNCHANGED <<r_qs, r_dense, r_sparse, r_overtook, notRet>>

\* unit i finishes while a unit with a smaller index is still running
Overtakes(i) == \E j \in 1..(i-1) : r_unit[j].st \in {"search", "rerank"}

\* the search call of unit i returns or raises (lines 261-286); without
\* candidates the unit formats the empty list and returns its pair
RetSearchDone(i) ==
    /\ r_pc \in {"gather", "done"}
    /\ r_unit[i].st = "search"
    /\ \E res \in {Raised("search error")} \cup {Ok([documents |-> c]) : c \in SearchResults} :
          LET retrieval_result == IF res.raised THEN [documents |-> <<>>] ELSE res.v
              query_text == RetArgs(i).query.question
          IN  /\ r_failed' = [r_failed EXCEPT ![i] = IF res.raised THEN @ \cup {"search"} ELSE @]
              /\ r_used' = [r_used EXCEPT ![i].search =
                                [query_embedding |-> RetArgs(i).dense_emb,
                                 query_sparse_embedding |-> RetArgs(i).sparse_emb],
                                           ![i].format =
                                IF retrieval_result.documents = <<>>
                                THEN [documents |-> <<>>] ELSE @]
              /\ IF retrieval_result.documents = <<>>
                 THEN /\ r_unit' = [r_unit EXCEPT ![i] = RetFinishUnit(query_text, <<>>)]
                      /\ r_overtook' = (r_overtook \/ Overtakes(i))
                 ELSE /\ r_unit' = [r_unit EXCEPT ![i] =
                                       [st |-> "rerank", documents |-> retrieval_result.documents]]
                      /\ UNCHANGED r_overtook
    /\ UNCHANGED <<r_qs, r_dense, r_sparse, r_out, r_pc, notRet>>

RerankedDocs_EmptyOnError(rerank_result, candidates) ==
    IF rerank_result.raised THEN <<>> ELSE rerank_result.v.documents

\* lines 304-309: docs is the ranker's list, or the search candidates when
\* the rerank call raised
RerankedDocs(rerank_result, candidates) ==
    IF rerank_result.raised THEN candidates ELSE rerank_result.v.documents

\* the rerank call of unit i returns or raises (lines 289-309), then the
\* documents are formatted and the unit ends (lines 311-318)
RetRerankDone(i) ==
    /\ r_pc \in {"gather", "done"}
    /\ r_unit[i].st = "rerank"
    /\ \E res \in {Raised("rerank error")}
                  \cup {Ok([documents |-> d]) :
                          d \in RerankOutcomes(r_unit[i].documents, DEFAULT_TOP_K)} :
          LET docs == RerankedDocs(res, r_unit[i].documents)
              query_text == RetArgs(i).query.question
              unit == RetFinishUnit(query_text, docs)
          IN  /\ r_unit' = [r_unit EXCEPT ![i] = unit]
              /\ r_used' = [r_used EXCEPT ![i].rerank =
                                [query |-> query_text, documents |-> r_unit[i].documents],
                                           ![i].format = [documents |-> docs]]
              /\ r_failed' = [r_failed EXCEPT ![i] =
                                 @ \cup (IF res.raised THEN {"rerank"} ELSE {})
                                   \cup (IF unit.st = "raised" THEN {"format"} ELSE {})]
              /\ r_overtook' = (r_overtook \/ Overtakes(i))
    /\ UNCHANGED <<r_qs, r_dense, r_sparse, r_out, r_pc, notRet>>

\* asyncio.gather raises the exception of a unit; the outer except branch
\* returns no pair at all (lines 336-338)
RetGatherRaises ==
    /\ r_pc = "gather"
    /\ \E i \in 1..RetTasks : r_unit[i].st = "raised"
    /\ r_out' = <<>>
    /\ r_pc' = "done"
    /\ UNCHANGED <<r_qs, r_dense, r_sparse, r_unit, r_failed, r_overtook, r_used, notRet>>

\* asyncio.gather returns when every unit has returned (lines 330-334)
RetGatherReturns ==
    /\ r_pc = "gather"
    /\ \A i \in 1..RetTasks : r_unit[i].st = "returned"
    /\ r_out' = RetGathered(r_unit)
    /\ r_pc' = "done"
    /\ UNCHANGED <<r_qs, r_dense, r_sparse, r_unit, r_failed, r_overtook, r_used, notRet>>

NextRetriever ==
    \/ RetStart
    \/ \E i \in 1..Len(r_unit) : RetSearchDone(i)
    \/ \E i \in 1..Len(r_unit) : RetRerankDone(i)
    \/ RetGatherRaises
    \/ RetGatherReturns
SpecRetriever == InitRetriever /\ [][NextRetriever]_vars

RetN == Len(r_qs.questions)
\* N questions came with N dense and N sparse embeddings
RetAligned == Len(r_dense) = RetN /\ Len(r_sparse) = RetN

(***************************************************************************)
(* Claims on the retriever.                                                 *)
(***************************************************************************)
\* the formatter raised in no unit
C7_NoFormatFailure == \A i \in 1..Len(r_failed) : "format" \notin r_failed[i]

C8_FailureIsolated ==
    (r_pc = "done" /\ RetAligned) =>
        \A i \in 1..RetN :
            r_unit[i].st = "returned" =>
                /\ Len(r_out) = RetN
                /\ r_out[i] = r_unit[i].pair

(***************************************************************************)
(* Cache layer (app/utils/cache.py): serialization and reconstruction.      *)
(*                                                                         *)
(* A JSON text is held as its parse tree, tagged in field j; InvalidJson    *)
(* is a text json.loads rejects and EmptyText the empty string.             *)
(***************************************************************************)
JNull == [j |-> "null"]
JBool(b) == [j |-> "bool", b |-> b]
JNumber(v) == [j |-> "number", v |-> v]
JString(s) == [j |-> "string", s |-> s]
JArray(items) == [j |-> "array", items |-> items]
JObject(members) == [j |-> "object", members |-> members]
InvalidJson == [j |-> "invalid"]
EmptyText == [j |-> "empty"]

\* Questions.model_dump(mode='json') and Question.model_dump(mode='json')
ModelDump(m) ==
    LET QDump(q) == PyDict([question |-> PyStr(q.question), answer |-> q.answer])
    IN  IF m.t = "Question" THEN QDump(m)
        ELSE PyDict([questions |->
                        PyList([i \in 1..Len(m.questions) |-> QDump(m.questions[i])])])

\* _prepare_for_serialization, lines 153-167
RECURSIVE PrepareForSerialization(_)
PrepareForSerialization(data) ==
    IF data.t \in {"Question", "Questions"} THEN ModelDump(data)
    ELSE IF data.t = "dict"
    THEN PyDict([k \in DOMAIN data.kv |-> PrepareForSerialization(data.kv[k])])
    ELSE IF data.t = "list"
    THEN PyList([i \in 1..Len(data.items) |-> PrepareForSerialization(data.items[i])])
    ELSE data

\* json.dumps accepts the value
RECURSIVE JsonSerializable(_)
JsonSerializable(v) ==
    CASE v.t \in {"None", "bool", "int", "float", "str"} -> TRUE
      [] v.t \in {"list", "tuple"} -> \A i \in 1..Len(v.items) : JsonSerializable(v.items[i])
      [] v.t = "dict" -> \A k \in DOMAIN v.kv : JsonSerializable(v.kv[k])
      [] OTHER -> FALSE

RECURSIVE ToJson(_)
ToJson(v) ==
    CASE v.t = "None" -> JNull
      [] v.t = "bool" -> JBool(v.b)
      [] v.t \in {"int", "float"} -> JNumber(v)
      [] v.t = "str" -> JString(v.s)
      [] v.t \in {"list", "tuple"} -> JArray([i \in 1..Len(v.items) |-> ToJson(v.items[i])])
      [] v.t = "dict" -> JObject([k \in DOMAIN v.kv |-> ToJson(v.kv[k])])

\* json.dumps(v): the text, or TypeError for a value that is not serializable
JsonDumps(v) == IF JsonSerializable(v) THEN Ok(ToJson(v)) ELSE Raised("TypeError")

RECURSIVE FromJson(_)
FromJson(x) ==
    CASE x.j = "null" -> PyNone
      [] x.j = "bool" -> PyBool(x.b)
      [] x.j = "number" -> x.v
      [] x.j = "string" -> PyStr(x.s)
      [] x.j = "array" -> PyList([i \in 1..Len(x.items) |-> FromJson(x.items[i])])
      [] x.j = "object" -> PyDict([k \in DOMAIN x.members |-> FromJson(x.members[k])])

JsonLoadsStored_Lenient(text) ==
    IF text.j \in {"invalid", "empty"} THEN Ok(PyStr(<<"raw">>)) ELSE Ok(FromJson(text))

\* json.loads(text) of a stored text
JsonLoadsStored(text) ==
    IF text.j \in {"invalid", "empty"} THEN Raised("JSONDecodeError") ELSE Ok(FromJson(text))

\* d.get(key, default) of a mapping
DictGet(d, key, default) == IF key \in DOMAIN d.kv THEN d.kv[key] ELSE default

\* Question(question=q, answer=a): q must be a str, a a str or None
QuestionCtor(q, a) ==
    IF q.t = "str" /\ a.t \in {"str", "None"} THEN Ok(Question(q.s, a))
    ELSE Raised("ValidationError")

\* lines 179-187 and 228-236: a Question for every mapping with a "question"
\* key, the other elements skipped; the first invalid mapping raises
RECURSIVE QuestionsFromMappings(_, _)
QuestionsFromMappings(items, questions_list) ==
    IF items = <<>> THEN Ok(questions_list)
    ELSE LET q_data == Head(items) IN
         IF q_data.t = "dict" /\ "question" \in DOMAIN q_data.kv
         THEN LET q == QuestionCtor(DictGet(q_data, "question", PyStr(<<>>)),
                                    DictGet(q_data, "answer", PyNone))
              IN  IF q.raised THEN q
                  ELSE QuestionsFromMappings(Tail(items), Append(questions_list, q.v))
         ELSE QuestionsFromMappings(Tail(items), questions_list)

\* lines 179-192 and 228-241: the Questions object, or None when the list
\* built is empty or the construction raised (the except branch only logs)
ReconstructQuestions(items) ==
    LET r == QuestionsFromMappings(items, <<>>) IN
    IF ~r.raised /\ r.v # <<>> THEN Questions(r.v) ELSE PyNone

\* _reconstruct_models, lines 170-246
RECURSIVE ReconstructModels(_)
ReconstructModels(data) ==
    IF data.t = "dict"
    THEN LET q == IF "questions" \in DOMAIN data.kv /\ data.kv.questions.t = "list"
                  THEN ReconstructQuestions(data.kv.questions.items)
                  ELSE PyNone
         IN  IF q.t = "Questions" THEN q
             ELSE PyDict([k \in DOMAIN data.kv |-> ReconstructModels(data.kv[k])])
    ELSE IF data.t = "tuple"
    THEN IF Len(data.items) >= 2 /\ data.items[1] = PyStr(<<"questions">>)
         THEN LET questions_list == IF data.items[2].t = "list" THEN data.items[2].items
                                    ELSE <<>>
              IN  IF questions_list # <<>>
                  THEN LET obj == QuestionsCtor(questions_list) IN
                       IF obj.raised THEN PyList(questions_list) ELSE obj.v
                  ELSE PyList(questions_list)
         ELSE IF Len(data.items) >= 2
         THEN PyTuple(<<data.items[1], ReconstructModels(data.items[2])>>)
         ELSE data
    ELSE IF data.t = "list"
    THEN LET first_is_question ==
                 /\ Len(data.items) > 0
                 /\ data.items[1].t = "dict"
                 /\ "question" \in DOMAIN data.items[1].kv
                 /\ "answer" \in DOMAIN data.items[1].kv
             q == IF first_is_question THEN ReconstructQuestions(data.items) ELSE PyNone
         IN  IF q.t = "Questions" THEN q
             ELSE PyList([i \in 1..Len(data.items) |-> ReconstructModels(data.items[i])])
    ELSE data

CachedValue_NoHitFlag(redis_data) ==
    IF redis_data = PyNone \/ redis_data.j = "empty" THEN PyNone
    ELSE LET loaded == JsonLoadsStored(redis_data) IN
         IF loaded.raised THEN PyNone ELSE ReconstructModels(loaded.v)

\* get_cached_result, lines 98-112: what is made of the bytes the store
\* returned (None: treated as a miss)
CachedValue(redis_data) ==
    IF redis_data = PyNone \/ redis_data.j = "empty" THEN PyNone
    ELSE LET loaded == JsonLoadsStored(redis_data) IN
         IF loaded.raised THEN PyNone
         ELSE LET result == IF loaded.v.t = "dict"
                            THEN PyDict([k \in DOMAIN loaded.v.kv \cup {"cache_hit"} |->
                                            IF k = "cache_hit" THEN PyBool(TRUE)
                                            ELSE loaded.v.kv[k]])
                            ELSE loaded.v
              IN  ReconstructModels(result)

\* cache_result, lines 133-136: the JSON text handed to the store, or the
\* exception that makes cache_result return False
SerializedResult(result) == JsonDumps(PrepareForSerialization(result))

(***************************************************************************)
(* Cache layer: the client, the store and the two entry points.             *)
(***************************************************************************)
\* question strings: "a" and "A " differ only in case and surrounding
\* whitespace
PipeQuestions == {<<"a">>, <<"A", " ">>}

LowerChar(c) == CASE c = "A" -> "a" [] c = "B" -> "b" [] OTHER -> c
\* str.lower()
Lower(s) == [i \in 1..Len(s) |-> LowerChar(s[i])]
Whitespace == {" "}
\* str.strip()
RECURSIVE Strip(_)
Strip(s) ==
    IF s = <<>> THEN s
    ELSE IF Head(s) \in Whitespace THEN Strip(Tail(s))
    ELSE IF s[Len(s)] \in Whitespace THEN Strip(SubSeq(s, 1, Len(s) - 1))
    ELSE s

\* hashlib.md5(b).hexdigest(): the digest is named by the bytes digested
\* (two different byte strings of the model do not collide)
Md5Hex(b) == [md5 |-> b]

GenerateCacheKey_CaseSensitive(question) == Md5Hex(Strip(question))

\* LegalDecompositionPipelineService._generate_cache_key, lines 145-147
GenerateCacheKey(question) == Md5Hex(Strip(Lower(question)))

\* f"legal_query:{query_key}", lines 93 and 130
NamespacedKey(query_key) == <<"legal_query:", query_key>>

StoreKeys == {NamespacedKey(GenerateCacheKey(q)) : q \in PipeQuestions}

\* a stored list of one question mapping, as an earlier writer left it
ForeignQuestionList ==
    JArray(<<JObject([question |-> JString(<<"s">>), answer |-> JNull])>>)
\* entries of the shared store that this service did not write
ForeignEntries == {InvalidJson, EmptyText, ForeignQuestionList}

\* _get_redis_client_sync, lines 38-62: a first call builds the client and
\* pings; the constructor may raise (client stays None), the ping may raise
\* or fail (client kept, not connected) or answer PONG
ClientInitOutcomes == {"ctor_raises", "ping_fails", "pong"}

NeedsClientInit_Always(client) == TRUE

\* "if _redis_client is None", cache.py line 42
NeedsClientInit(client) == client = "None"

GetRedisClientSync ==
    IF NeedsClientInit(c_client)
    THEN \E o \in ClientInitOutcomes :
            /\ c_client' = IF o = "ctor_raises" THEN "None" ELSE "Redis"
            /\ c_connected' = (o = "pong")
    ELSE UNCHANGED <<c_client, c_connected>>

\* lines 249-254: the state after the module is loaded
CacheLoaded ==
    /\ c_enabled \in BOOLEAN
    /\ IF c_enabled
       THEN \E o \in ClientInitOutcomes :
               /\ c_client = IF o = "ctor_raises" THEN "None" ELSE "Redis"
               /\ c_connected = (o = "pong")
       ELSE c_client = "None" /\ c_connected = FALSE

\* PipelineResult as run_pipeline builds it, lines 194-199 and 265-270
PipelineResult(answer, sub_questions, document_metadata, processing_time, cache_hit) ==
    PyDict([answer |-> answer, sub_questions |-> sub_questions,
            document_metadata |-> document_metadata,
            processing_time |-> processing_time, cache_hit |-> cache_hit])

\* str(n) for the entry numbers of the model
Numerals == <<"1", "2", "3", "4", "5", "6", "7", "8", "9", "10", "11", "12", "13", "14", "15",
              "16", "17", "18", "19", "20">>
Str(n) == Numerals[n]

\* one entry of document_metadata, lines 293-312: n is the entry's number,
\* doc_idx the document's position within its pair
MetadataEntry(n, doc_idx, document_id, title_field, title) ==
    PyDict((title_field :> title) @@
           [id |-> PyStr(<<"doc-", Str(n)>>), score |-> PyFloat(10 - doc_idx),
            document_id |-> document_id])

(***************************************************************************)
(* cache_result followed by get_cached_result on one key.                   *)
(***************************************************************************)
RtKey == NamespacedKey(GenerateCacheKey(<<"a">>))

RoundTripResults ==
    {PipelineResult(PyStr(<<"ans">>), Questions(qs), PyList(m), PyFloat(7), PyBool(FALSE)) :
        qs \in SeqUpTo(QuestionObjs, MaxQ),
        m \in {<<>>, <<MetadataEntry(1, 0, PyStr(<<"d1">>), "case_title", PyStr(<<"T">>))>>}}

InitRoundTrip ==
    /\ CacheLoaded
    /\ c_store \in [StoreKeys -> {PyNone}]
    /\ rt_pc = "start"
    /\ rt_result \in RoundTripResults
    /\ rt_json = NoResult /\ rt_ok = NoResult /\ rt_back = NoResult
    /\ p_call = <<>>
    /\ FnIdle
    /\ CompIdle

\* cache_result, lines 120-136: up to the call of the store
RtCacheResult ==
    /\ rt_pc = "start"
    /\ IF ~c_enabled
       THEN /\ UNCHANGED <<c_client, c_connected>>
            /\ rt_ok' = FALSE /\ rt_pc' = "written" /\ UNCHANGED rt_json
       ELSE /\ GetRedisClientSync
            /\ IF ~c_connected'
               THEN rt_ok' = FALSE /\ rt_pc' = "written" /\ UNCHANGED rt_json
               ELSE LET json_data == SerializedResult(rt_result) IN
                    IF json_data.raised
                    THEN rt_ok' = FALSE /\ rt_pc' = "written" /\ UNCHANGED rt_json
                    ELSE rt_json' = json_data.v /\ rt_pc' = "set" /\ UNCHANGED rt_ok
    /\ UNCHANGED <<c_enabled, c_store, rt_result, rt_back, p_call, notSvc>>

\* lines 139-147: redis_client.set(cache_key, json_data, ex=REDIS_CACHE_TTL)
\* returned
RtSetReturns ==
    /\ rt_pc = "set"
    /\ c_store' = [c_store EXCEPT ![RtKey] = rt_json]
    /\ rt_ok' = TRUE /\ rt_pc' = "written"
    /\ UNCHANGED <<c_enabled, c_client, c_connected, rt_result, rt_json, rt_back, p_call, notSvc>>

\* lines 148-150: the call of the store raised
RtSetRaises ==
    /\ rt_pc = "set"
    /\ rt_ok' = FALSE /\ rt_pc' = "written"
    /\ UNCHANGED <<cacheVars, rt_result, rt_json, rt_back, p_call, notSvc>>

\* get_cached_result, lines 83-90: up to the call of the store
RtGetCachedResult ==
    /\ rt_pc = "written"
    /\ IF ~c_enabled
       THEN /\ UNCHANGED <<c_client, c_connected>>
            /\ rt_back' = PyNone /\ rt_pc' = "read"
       ELSE /\ GetRedisClientSync
            /\ IF ~c_connected'
               THEN rt_back' = PyNone /\ rt_pc' = "read"
               ELSE rt_pc' = "get" /\ UNCHANGED rt_back
    /\ UNCHANGED <<c_enabled, c_store, rt_result, rt_json, rt_ok, p_call, notSvc>>

\* lines 96-112: redis_client.get(cache_key) returned
RtGetReturns ==
    /\ rt_pc = "get"
    /\ rt_back' = CachedValue(c_store[RtKey])
    /\ rt_pc' = "read"
    /\ UNCHANGED <<cacheVars, rt_result, rt_json, rt_ok, p_call, notSvc>>

\* lines 113-115: the call of the store raised
RtGetRaises ==
    /\ rt_pc = "get"
    /\ rt_back' = PyNone
    /\ rt_pc' = "read"
    /\ UNCHANGED <<cacheVars, rt_result, rt_json, rt_ok, p_call, notSvc>>

NextRoundTrip ==
    \/ RtCacheResult
    \/ RtSetReturns
    \/ RtSetRaises
    \/ RtGetCachedResult
    \/ RtGetReturns
    \/ RtGetRaises

SpecRoundTrip == InitRoundTrip /\ [][NextRoundTrip]_vars

\* the question list of a sub_questions value, whatever holds it
C4_Input == rt_result.kv.sub_questions

\* the result was written and something was read back
C4_ReadBack == rt_pc = "read" /\ rt_ok = TRUE /\ rt_back # PyNone

\* C4: for any QuestionSet qs (any length including 0, each answer present
\* or null), a PipelineResult whose sub_questions is qs, written with
\* cache_result and read back with get_cached_result, has a sub_questions
\* that is a Questions instance with the same question texts, the same
\* answers and the same order as qs.
C4_RoundTripRestoresQuestions ==
    C4_ReadBack =>
        /\ rt_back.t = "dict"
        /\ "sub_questions" \in DOMAIN rt_back.kv
        /\ rt_back.kv.sub_questions.t = "Questions"
        /\ rt_back.kv.sub_questions.questions = C4_Input.questions

(***************************************************************************)
(* LegalDecompositionPipelineService                                        *)
(* (app/pipelines/legal_decomposition_pipeline.py).                         *)
(***************************************************************************)
\* lines 245-253: a list of question mappings or question objects
RECURSIVE NormalizeList(_, _)
NormalizeList(items, questions_list) ==
    IF items = <<>> THEN QuestionsCtor(questions_list)
    ELSE LET q_data == Head(items) IN
         IF q_data.t = "dict"
         THEN LET q == QuestionModelValidate(q_data) IN
              IF q.raised THEN q
              ELSE NormalizeList(Tail(items), Append(questions_list, q.v))
         ELSE LET h == HasAttr(q_data, "question") IN
              IF h.raised THEN h
              ELSE IF h.v THEN NormalizeList(Tail(items), Append(questions_list, q_data))
              ELSE NormalizeList(Tail(items), questions_list)

\* lines 235-263: the sub_questions made of the resolver's structured_reply
NormalizeStructuredReply(sub_questions_raw) ==
    LET h == HasAttr(sub_questions_raw, "questions") IN
    IF h.raised THEN h
    ELSE IF h.v THEN Ok(sub_questions_raw)
    ELSE IF sub_questions_raw.t = "dict" /\ "questions" \in DOMAIN sub_questions_raw.kv
    THEN QuestionsModelValidate(sub_questions_raw)
    ELSE IF sub_questions_raw.t = "list"
    THEN NormalizeList(sub_questions_raw.items, <<>>)
    ELSE LET hc == HasAttr(sub_questions_raw, "content") IN
         IF hc.raised THEN hc
         ELSE IF hc.v
         THEN LET hr == HasAttr(sub_questions_raw, "role") IN
              IF hr.raised THEN hr ELSE Ok(Questions(<<>>))
         ELSE Ok(Questions(<<>>))

\* lines 293-312: the entry of one formatted document
DocumentEntry(n, doc_idx, formatted_doc, question_text) ==
    LET doc_metadata == formatted_doc.metadata
        document_id == IF "document_id" \in DOMAIN doc_metadata
                       THEN doc_metadata.document_id
                       ELSE PyStr(<<"unknown-", Str(n)>>)
        k == FirstTitleField(DOMAIN doc_metadata)
    IN  IF k # 0
        THEN MetadataEntry(n, doc_idx, document_id, TitleFields[k], doc_metadata[TitleFields[k]])
        ELSE MetadataEntry(n, doc_idx, document_id, "case_title",
                           IF question_text # <<>>
                           THEN PyStr(<<"Result for: ">> \o Take(question_text, 30) \o <<"...">>)
                           ELSE PyStr(<<"Unknown document">>))

RECURSIVE MetadataLoop_All(_, _)
MetadataLoop_All(pairs, document_metadata) ==
    IF pairs = <<>> THEN document_metadata
    ELSE LET pair == Head(pairs)
             n == Len(document_metadata)
         IN  MetadataLoop_All(Tail(pairs),
                 document_metadata \o
                 [i \in 1..Len(pair.documents) |->
                     DocumentEntry(n + i, i - 1, pair.documents[i], pair.question)])

\* lines 281-314: the loop over the pairs
RECURSIVE MetadataLoop(_, _)
MetadataLoop(pairs, document_metadata) ==
    IF pairs = <<>> THEN document_metadata
    ELSE LET pair == Head(pairs)
             formatted_docs == Take(pair.documents, 3)
             n == Len(document_metadata)
         IN  MetadataLoop(Tail(pairs),
                 document_metadata \o
                 [i \in 1..Len(formatted_docs) |->
                     DocumentEntry(n + i, i - 1, formatted_docs[i], pair.question)])

\* LegalDecompositionPipelineService._extract_document_metadata, lines 275-316
ExtractDocumentMetadata(results) ==
    IF "hybrid_retriever" \in DOMAIN results
       /\ "question_context_pairs" \in DOMAIN results["hybrid_retriever"]
    THEN PyList(MetadataLoop(results["hybrid_retriever"].question_context_pairs, <<>>))
    ELSE PyList(<<>>)

\* lines 223-228
FinalAnswer(results) ==
    IF "reasoning_llm" \in DOMAIN results /\ "replies" \in DOMAIN results["reasoning_llm"]
       /\ Len(results["reasoning_llm"].replies) > 0
    THEN PyStr(results["reasoning_llm"].replies[1])
    ELSE PyStr(<<"No answer generated">>)

SubQuestions_ValidatorWhenEmpty(results) ==
    IF "query_resolver" \in DOMAIN results
       /\ "structured_reply" \in DOMAIN results["query_resolver"]
       /\ results["query_resolver"].structured_reply # Questions(<<>>)
    THEN NormalizeStructuredReply(results["query_resolver"].structured_reply)
    ELSE IF "validator" \in DOMAIN results /\ "valid_questions" \in DOMAIN results["validator"]
    THEN Ok(results["validator"].valid_questions)
    ELSE Ok(PyNone)

\* lines 231-263
SubQuestions(results) ==
    IF "query_resolver" \in DOMAIN results
       /\ "structured_reply" \in DOMAIN results["query_resolver"]
    THEN NormalizeStructuredReply(results["query_resolver"].structured_reply)
    ELSE IF "validator" \in DOMAIN results /\ "valid_questions" \in DOMAIN results["validator"]
    THEN Ok(results["validator"].valid_questions)
    ELSE Ok(PyNone)

\* LegalDecompositionPipelineService._process_pipeline_results, lines 221-273:
\* the dict returned, or the exception of the normalization
ProcessPipelineResults(results, question) ==
    LET sub_questions == SubQuestions(results) IN
    IF sub_questions.raised THEN sub_questions
    ELSE Ok(PyDict([answer |-> FinalAnswer(results),
                    sub_questions |-> sub_questions.v,
                    document_metadata |-> ExtractDocumentMetadata(results),
                    cache_hit |-> PyBool(FALSE)]))

\* lines 210-218: the result of the top-level except branch
ErrorResult(e, elapsed) ==
    PyDict([answer |-> PyStr(<<"An error occurred while processing your question: ", e>>),
            error |-> PyStr(<<e>>),
            document_metadata |-> PyList(<<>>),
            processing_time |-> elapsed,
            cache_hit |-> PyBool(FALSE)])

\* d[key] = value on a dict
SetItem(d, key, value) ==
    PyDict([k \in DOMAIN d.kv \cup {key} |-> IF k = key THEN value ELSE d.kv[k]])

(***************************************************************************)
(* run_pipeline as a state machine.  Each caller's call goes through        *)
(*   get        awaiting redis_client.get inside get_cached_result          *)
(*   decomposer, validator, embedders, retriever, resolver, reasoning       *)
(*              the component pipeline.run_async is waiting for (a prompt   *)
(*              builder runs together with the generator it feeds)          *)
(*   process    pipeline.run_async returned                                 *)
(*   set        awaiting redis_client.set inside cache_result               *)
(*   returned / raised   run_pipeline returned a value / let an exception   *)
(*              out                                                         *)
(* lookup tells how the cache lookup of the call ended, synth_failed whether *)
(* the generation call of reasoning_llm raised, trace lists the awaited     *)
(* calls of run_pipeline in the order it made them (get_cached_result,      *)
(* pipeline.run_async, cache_result), and prev remembers the preceding call *)
(* of the same caller.                                                      *)
(***************************************************************************)
Callers == {"c1"}

OutputComponents ==
    {"decomposer", "validator", "query_resolver", "reasoning_llm", "hybrid_retriever"}
Components == OutputComponents \cup {"dense_embedder", "sparse_embedder"}
StagePcs == {"decomposer", "validator", "embedders", "retriever", "resolver", "reasoning"}

NoOutputs == [k \in Components |-> NoResult]

\* include_outputs_from=output_components, lines 180-190
IncludedOutputs(outputs) ==
    [k \in {k \in OutputComponents : outputs[k] # NoResult} |-> outputs[k]]

IdleCall ==
    [pc |-> "idle", question |-> <<>>, outputs |-> NoOutputs, result |-> NoResult,
     ret |-> NoResult, stored |-> FALSE, lookup |-> "none", synth_failed |-> FALSE,
     trace |-> <<>>, prev |-> NoResult]

\* time.time() - start_time of a run, lines 196 and 216
Elapsed == PyFloat(7)

\* what the generation backend does for each of the three generators
DecomposerBackends ==
    {Raised("backend error"),
     Ok([replies |-> <<<<"x", "{", "qs2", "}">>>>, meta |-> <<"meta">>])}
ResolverBackends ==
    {Raised("backend error"),
     Ok([replies |-> <<<<"{", "qa1", "}">>>>, meta |-> <<"meta">>])}
ReasoningBackends ==
    {Raised("backend error"),
     Ok([replies |-> <<>>, meta |-> <<"meta">>]),
     Ok([replies |-> <<<<"ans">>>>, meta |-> <<"meta">>])}
\* the documents one retrieval unit ends with after search and rerank
PipeUnitDocs == {<<>>, <<DocA, DocB>>}
\* exceptions of pipeline.run_async itself (input validation, prompt rendering)
PipelineErrors == {"pipeline error"}

\* how the preceding call ended
KindOf(call) ==
    IF call.pc = "raised" THEN "raised"
    ELSE IF "error" \in DOMAIN call.ret.kv THEN "error"
    ELSE IF call.ret.kv.cache_hit = PyBool(TRUE) THEN "hit"
    ELSE "fresh"

PrevOf(call) ==
    [question |-> call.question, kind |-> KindOf(call), stored |-> call.stored,
     lookup |-> call.lookup, connected |-> c_enabled /\ c_connected, ret |-> call.ret]

DropRet(prev) == IF prev = NoResult THEN prev ELSE [prev EXCEPT !.ret = NoResult]

CallKey(call) == NamespacedKey(GenerateCacheKey(call.question))

\* what redis_client.get found, cache.py lines 96-112: nothing, bytes that
\* are not JSON, or a JSON value
LookupOutcome(redis_data) ==
    IF redis_data = PyNone \/ redis_data.j = "empty" THEN "absent"
    ELSE IF redis_data.j = "invalid" THEN "undecodable"
    ELSE "value"
\* the lookups in which redis_client.get returned
LookupReturned == {"absent", "undecodable", "value"}

\* the call ends: run_pipeline returns value; the outputs the value was
\* computed from stay on record
Returned(call, value, stored) ==
    [IdleCall EXCEPT !.pc = "returned", !.question = call.question, !.ret = value,
                     !.outputs = call.outputs,
                     !.stored = stored, !.lookup = call.lookup,
                     !.synth_failed = call.synth_failed, !.trace = call.trace,
                     !.prev = call.prev]

\* the call ends in the top-level except branch, lines 210-219
Failed(call, e) ==
    [Returned(call, ErrorResult(e, Elapsed), FALSE) EXCEPT !.outputs = NoOutputs]

\* the call goes on to pc with the output of component comp
StageDone(call, comp, output, pc) ==
    [call EXCEPT !.outputs[comp] = output, !.pc = pc]

\* asyncio.gather over the units of the retriever and the outer except,
\* retrievers.py lines 330-338
RetrieverResult(units) ==
    IF \E i \in 1..Len(units) : units[i].st = "raised" THEN <<>> ELSE RetGathered(units)

InitPipeline ==
    /\ CacheLoaded
    /\ c_store \in [StoreKeys -> {PyNone} \cup ForeignEntries]
    /\ p_call = [c \in Callers |-> IdleCall]
    /\ RtIdle
    /\ FnIdle
    /\ CompIdle

\* run_pipeline(q) is called, lines 150-161, and get_cached_result runs up
\* to its call of the store (cache.py lines 83-96)
PipeCall(c, q) ==
    LET call == p_call[c]
        prev == IF call.pc # "idle" THEN PrevOf(call) ELSE NoResult
        miss == [IdleCall EXCEPT !.pc = "decomposer", !.question = q, !.lookup = "skipped",
                                 !.trace = <<"get_cached_result", "run_async">>,
                                 !.prev = DropRet(prev)]
        wait == [IdleCall EXCEPT !.pc = "get", !.question = q, !.lookup = "pending",
                                 !.trace = <<"get_cached_result">>,
                                 !.prev = prev]
    IN  /\ call.pc \in {"idle", "returned", "raised"}
        /\ IF ~c_enabled
           THEN /\ UNCHANGED <<c_client, c_connected>>
                /\ p_call' = [p_call EXCEPT ![c] = miss]
           ELSE /\ GetRedisClientSync
                /\ p_call' = [p_call EXCEPT ![c] = IF c_connected' THEN wait ELSE miss]
        /\ UNCHANGED <<c_enabled, c_store, rtVars, notSvc>>

\* redis_client.get returned: cache.py lines 98-112, then run_pipeline lines
\* 162-168
CacheHit_Never(cached_result) == FALSE

\* "if cached_result:", line 162
CacheHit(cached_result) == Truthy(cached_result)

\* the call goes on to pipeline.run_async, lines 170-183
RunAsync(call) ==
    [call EXCEPT !.pc = "decomposer", !.trace = Append(@, "run_async"),
                 !.prev = DropRet(call.prev)]

PipeGetReturns(c) ==
    LET call == p_call[c]
        cached_result == CachedValue(c_store[CallKey(call)])
        read == [call EXCEPT !.lookup = LookupOutcome(c_store[CallKey(call)])]
    IN  /\ call.pc = "get"
        /\ p_call' = [p_call EXCEPT ![c] =
              IF CacheHit(cached_result)
              THEN IF cached_result.t = "dict"
                   THEN Returned(read, SetItem(cached_result, "processing_time", PyFloat(0)),
                                 FALSE)
                   ELSE [read EXCEPT !.pc = "raised", !.ret = Raised("TypeError")]
              ELSE RunAsync(read)]
        /\ UNCHANGED <<cacheVars, rtVars, notSvc>>

\* redis_client.get raised: cache.py lines 113-115, a miss
PipeGetRaises(c) ==
    LET call == p_call[c] IN
    /\ call.pc = "get"
    /\ p_call' = [p_call EXCEPT ![c] = RunAsync([call EXCEPT !.lookup = "raised"])]
    /\ UNCHANGED <<cacheVars, rtVars, notSvc>>

\* prompt and decomposer
PipeDecompose(c) ==
    LET call == p_call[c] IN
    /\ call.pc = "decomposer"
    /\ \E backend \in DecomposerBackends :
        LET out == GeneratorRunAsync("Questions", backend) IN
        p_call' = [p_call EXCEPT ![c] =
            IF out.raised THEN Failed(call, out.exc)
            ELSE StageDone(call, "decomposer", out.v, "validator")]
    /\ UNCHANGED <<cacheVars, rtVars, notSvc>>

\* validator, fed with decomposer.structured_reply and the question
PipeValidate(c) ==
    LET call == p_call[c]
        out == ValidatorRunAsync(call.outputs["decomposer"].structured_reply, call.question)
    IN  /\ call.pc = "validator"
        /\ p_call' = [p_call EXCEPT ![c] =
              IF out.raised THEN Failed(call, out.exc)
              ELSE StageDone(call, "validator", out.v, "embedders")]
        /\ UNCHANGED <<cacheVars, rtVars, notSvc>>

EmbedderOf(kind) == IF kind = "dense" THEN "dense_embedder" ELSE "sparse_embedder"

AfterEmbedder_Eager(outputs, other) == "retriever"

\* hybrid_retriever has an input from each embedder (lines 93-94): it is run
\* once the other embedder has delivered too
AfterEmbedder(outputs, other) ==
    IF outputs[other] = NoResult THEN "embedders" ELSE "retriever"

\* dense_embedder or sparse_embedder, fed with validator.valid_questions; the
\* two run in either order
PipeEmbed(c, kind) ==
    LET call == p_call[c]
        questions == call.outputs["validator"].valid_questions.questions
        all == [i \in 1..Len(questions) |-> Embedding(kind, questions[i].question)]
        other == EmbedderOf(CHOOSE k \in Kinds : k # kind)
        pc == AfterEmbedder(call.outputs, other)
    IN  /\ call.pc = "embedders"
        /\ call.outputs[EmbedderOf(kind)] = NoResult
        /\ \E failed \in BOOLEAN :
            LET embeddings == IF failed THEN EmbOnError(Take(all, Len(all) - 1)) ELSE all
            IN  p_call' = [p_call EXCEPT ![c] =
                    StageDone(call, EmbedderOf(kind), [embeddings |-> embeddings], pc)]
        /\ UNCHANGED <<cacheVars, rtVars, notSvc>>

\* hybrid_retriever, fed with the valid questions and the two embedding lists
PipeRetrieve(c) ==
    LET call == p_call[c]
        questions == call.outputs["validator"].valid_questions.questions
        n == Min3(Len(questions), Len(call.outputs["dense_embedder"].embeddings),
                  Len(call.outputs["sparse_embedder"].embeddings))
    IN  /\ call.pc = "retriever"
        /\ \E docs \in [1..n -> PipeUnitDocs] :
            LET units == [i \in 1..n |-> RetFinishUnit(questions[i].question, docs[i])]
            IN  p_call' = [p_call EXCEPT ![c] =
                    StageDone(call, "hybrid_retriever",
                              [question_context_pairs |-> RetrieverResult(units)], "resolver")]
        /\ UNCHANGED <<cacheVars, rtVars, notSvc>>

\* multi_query_prompt and query_resolver
PipeResolve(c) ==
    LET call == p_call[c] IN
    /\ call.pc = "resolver"
    /\ \E backend \in ResolverBackends :
        LET out == GeneratorRunAsync("Questions", backend) IN
        p_call' = [p_call EXCEPT ![c] =
            IF out.raised THEN Failed(call, out.exc)
            ELSE StageDone(call, "query_resolver", out.v, "reasoning")]
    /\ UNCHANGED <<cacheVars, rtVars, notSvc>>

\* reasoning_prompt and reasoning_llm (model_type None)
PipeReason(c) ==
    LET call == p_call[c] IN
    /\ call.pc = "reasoning"
    /\ \E backend \in ReasoningBackends :
        LET out == GeneratorRunAsync("None", backend) IN
        p_call' = [p_call EXCEPT ![c] =
            IF out.raised THEN Failed(call, out.exc)
            ELSE [StageDone(call, "reasoning_llm", out.v, "process")
                     EXCEPT !.synth_failed = backend.raised]]
    /\ UNCHANGED <<cacheVars, rtVars, notSvc>>

\* pipeline.run_async raised: lines 210-219
PipeRunRaises(c) ==
    LET call == p_call[c] IN
    /\ call.pc \in StagePcs
    /\ \E e \in PipelineErrors :
        p_call' = [p_call EXCEPT ![c] = Failed(call, e)]
    /\ UNCHANGED <<cacheVars, rtVars, notSvc>>

\* pipeline.run_async returned: lines 193-202, and cache_result up to its
\* call of the store (cache.py lines 120-136)
PipeProcess(c) ==
    LET call == p_call[c]
        processed == ProcessPipelineResults(IncludedOutputs(call.outputs), call.question)
        pipeline_result ==
            SetItem(SetItem(processed.v, "processing_time", Elapsed), "cache_hit", PyBool(FALSE))
        written == [call EXCEPT !.trace = Append(@, "cache_result")]
        unsaved == Returned(written, pipeline_result, FALSE)
    IN  /\ call.pc = "process"
        /\ IF processed.raised
           THEN /\ UNCHANGED <<c_client, c_connected>>
                /\ p_call' = [p_call EXCEPT ![c] =
                                 Failed(call, processed.exc)]
           ELSE IF ~c_enabled
           THEN /\ UNCHANGED <<c_client, c_connected>>
                /\ p_call' = [p_call EXCEPT ![c] = unsaved]
           ELSE /\ GetRedisClientSync
                /\ p_call' = [p_call EXCEPT ![c] =
                      IF ~c_connected' \/ SerializedResult(pipeline_result).raised
                      THEN unsaved
                      ELSE [written EXCEPT !.pc = "set", !.result = pipeline_result]]
        /\ UNCHANGED <<c_enabled, c_store, rtVars, notSvc>>

StoreSet_KeepFirst(store, key, data) ==
    IF store[key] = PyNone THEN [store EXCEPT ![key] = data] ELSE store

\* redis_client.set(cache_key, json_data, ex=REDIS_CACHE_TTL), cache.py lines
\* 139-144: the entry under the key is replaced
StoreSet(store, key, data) == [store EXCEPT ![key] = data]

\* redis_client.set returned: cache.py lines 139-147, then lines 203-208
PipeSetReturns(c) ==
    LET call == p_call[c] IN
    /\ call.pc = "set"
    /\ c_store' = StoreSet(c_store, CallKey(call), SerializedResult(call.result).v)
    /\ p_call' = [p_call EXCEPT ![c] = Returned(call, call.result, TRUE)]
    /\ UNCHANGED <<c_enabled, c_client, c_connected, rtVars, notSvc>>

\* redis_client.set raised: cache.py lines 148-150, then lines 203-208
PipeSetRaises(c) ==
    LET call == p_call[c] IN
    /\ call.pc = "set"
    /\ p_call' = [p_call EXCEPT ![c] = Returned(call, call.result, FALSE)]
    /\ UNCHANGED <<cacheVars, rtVars, notSvc>>

\* the places where run_pipeline awaits the network: the store read
\* (cache.py line 96), the stages that call the generation and search
\* backends (line 180 of the pipeline), the store write (cache.py line 139)
AwaitingPcs == {"get", "decomposer", "retriever", "resolver", "reasoning", "set"}

\* the external call in flight never completes: every one of them is awaited
\* without asyncio.wait_for or another deadline (lines 161, 180 and 199 of the
\* pipeline, retrievers.py lines 256-332), so the coroutine of run_pipeline
\* stays suspended at the await
PipeHang(c) ==
    LET call == p_call[c] IN
    /\ call.pc \in AwaitingPcs
    /\ p_call' = [p_call EXCEPT ![c] = [IdleCall EXCEPT !.pc = "hung",
                                                        !.question = call.question]]
    /\ UNCHANGED <<cacheVars, rtVars, notSvc>>

NextPipeline ==
    \/ \E c \in Callers, q \in PipeQuestions : PipeCall(c, q)
    \/ \E c \in Callers : PipeGetReturns(c)
    \/ \E c \in Callers : PipeGetRaises(c)
    \/ \E c \in Callers : PipeDecompose(c)
    \/ \E c \in Callers : PipeValidate(c)
    \/ \E c \in Callers, kind \in Kinds : PipeEmbed(c, kind)
    \/ \E c \in Callers : PipeRetrieve(c)
    \/ \E c \in Callers : PipeResolve(c)
    \/ \E c \in Callers : PipeReason(c)
    \/ \E c \in Callers : PipeRunRaises(c)
    \/ \E c \in Callers : PipeProcess(c)
    \/ \E c \in Callers : PipeSetReturns(c)
    \/ \E c \in Callers : PipeSetRaises(c)
    \/ \E c \in Callers : PipeHang(c)

SpecPipeline == InitPipeline /\ [][NextPipeline]_vars

\* a process that starts with an empty store
InitPipelineLive ==
    /\ InitPipeline
    /\ c_store = [k \in StoreKeys |-> PyNone]

\* the event loop resumes a coroutine whose awaited call completed
SpecPipelineLive == InitPipelineLive /\ [][NextPipeline]_vars /\ WF_vars(NextPipeline)

(***************************************************************************)
(* Claims on run_pipeline.                                                  *)
(***************************************************************************)
\* the call of caller c ended
Ended(c) == p_call[c].pc \in {"returned", "raised"}

\* the questions a sub_questions value holds, as Question objects: of a
\* Questions instance, or of the mapping {"questions": [...]}
C3_QuestionsOf(v) ==
    IF v.t = "Questions" THEN v.questions
    ELSE IF v.t = "dict" /\ "questions" \in DOMAIN v.kv /\ v.kv.questions.t = "list"
    THEN [i \in 1..Len(v.kv.questions.items) |->
            Question(v.kv.questions.items[i].kv.question.s,
                     v.kv.questions.items[i].kv.answer)]
    ELSE <<>>

\* the call of c is the second of two consecutive calls with the same
\* question, the cache enabled and connected during both, and the first call
\* was a miss that returned a result
C3_SecondOfTwo(c) ==
    /\ Ended(c)
    /\ p_call[c].prev # NoResult
    /\ p_call[c].prev.question = p_call[c].question
    /\ p_call[c].prev.kind \in {"fresh", "error"}
    /\ p_call[c].prev.connected /\ c_enabled /\ c_connected

\* the second result is a hit that repeats the first: cache_hit true,
\* processing_time 0.0, same answer, same sub-question texts, answers and
\* order, same document_metadata, every other field as it was stored
C3_RepeatsFirst(c) ==
    LET second == p_call[c].ret
        first == p_call[c].prev.ret
        stored == c_store[CallKey(p_call[c])]
    IN  /\ p_call[c].pc = "returned"
        /\ first # NoResult
        /\ first.kv.cache_hit = PyBool(FALSE)
        /\ second.kv.cache_hit = PyBool(TRUE)
        /\ second.kv.processing_time = PyFloat(0)
        /\ second.kv.answer = first.kv.answer
        /\ C3_QuestionsOf(second.kv.sub_questions) = C3_QuestionsOf(first.kv.sub_questions)
        /\ second.kv.document_metadata = first.kv.document_metadata
        /\ DOMAIN second.kv = DOMAIN stored.members
        /\ \A k \in DOMAIN second.kv \ {"cache_hit", "processing_time"} :
              ToJson(PrepareForSerialization(second.kv[k])) = stored.members[k]

\* C3 as stated: calling run_pipeline(q) twice with caching enabled and
\* connected, and no change to the cache in between, returns two results with
\* identical answer, sub_questions and document_metadata; the first has
\* cache_hit = false, the second cache_hit = true and processing_time = 0.0.
C3_SecondCallIsHit ==
    \A c \in Callers :
        (C3_SecondOfTwo(c) /\ p_call[c].pc = "returned") => C3_RepeatsFirst(c)

\* C3 amended: the same, for a first call whose pipeline run completed
\* without a top-level exception and whose cache write succeeded, and a
\* second call whose cache read did not fail.
C3_HitAfterStoredMiss ==
    \A c \in Callers :
        (/\ C3_SecondOfTwo(c)
         /\ p_call[c].prev.kind = "fresh"
         /\ p_call[c].prev.stored
         /\ p_call[c].lookup \in LookupReturned) => C3_RepeatsFirst(c)

\* a second call served from the cache after a first call that computed and
\* stored a result with sub-questions and document metadata
C3_Witness ==
    \E c \in Callers :
        /\ C3_SecondOfTwo(c)
        /\ p_call[c].prev.kind = "fresh" /\ p_call[c].prev.stored
        /\ p_call[c].lookup \in LookupReturned
        /\ p_call[c].pc = "returned"
        /\ p_call[c].ret.kv.cache_hit = PyBool(TRUE)
        /\ p_call[c].ret.kv.sub_questions.t = "Questions"
        /\ Len(p_call[c].ret.kv.sub_questions.questions) >= 1
        /\ Len(p_call[c].ret.kv.document_metadata.items) >= 1

\* C5: run_pipeline never raises to its caller: whatever raises in a pipeline
\* stage, in result processing, or in the cache lookup and the handling of
\* the value it returns, the call ends by returning a result, never by an
\* exception.
C5_NoExceptionEscapes ==
    \A c \in Callers : p_call[c].pc # "raised"

\* C6: every value returned by run_pipeline (fresh, served from cache, or
\* from the top-level failure path) carries answer, sub_questions,
\* document_metadata, processing_time and cache_hit, and its sub_questions is
\* a Questions instance.
C6_WellFormedResult ==
    \A c \in Callers :
        p_call[c].pc = "returned" =>
            /\ p_call[c].ret.t = "dict"
            /\ {"answer", "sub_questions", "document_metadata", "processing_time", "cache_hit"}
                   \subseteq DOMAIN p_call[c].ret.kv
            /\ p_call[c].ret.kv.sub_questions.t = "Questions"

\* C11: when the synthesizer's generation call fails, the pipeline does not
\* raise and the answer of the result returned by run_pipeline is exactly
\* "No answer generated".
C11_NoAnswerGenerated ==
    \A c \in Callers :
        (Ended(c) /\ p_call[c].synth_failed) =>
            /\ p_call[c].pc = "returned"
            /\ p_call[c].ret.kv.answer = PyStr(<<"No answer generated">>)

\* the result made of the outputs of a completed run, lines 193-199
C12_Computed(c) ==
    SetItem(SetItem(ProcessPipelineResults(IncludedOutputs(p_call[c].outputs),
                                           p_call[c].question).v,
                    "processing_time", Elapsed),
            "cache_hit", PyBool(FALSE))

\* the cache failed the call of c: the lookup was skipped (caching disabled
\* or client not connected), the store's get raised, the stored bytes were
\* not JSON, or cache_result returned False
C12_CacheFailed(c) ==
    \/ p_call[c].lookup \in {"skipped", "raised", "undecodable"}
    \/ p_call[c].pc = "returned" /\ p_call[c].ret.kv.cache_hit = PyBool(FALSE)
       /\ ~p_call[c].stored

\* C12: cache failures are soft.  A call whose lookup was skipped, raised or
\* found undecodable bytes, or whose cache write did not succeed, returns
\* without raising; what it returns is the result computed from the outputs
\* of its pipeline run with cache_hit = false (the error result when the run
\* itself failed), the same value a call with a working cache returns; and
\* with caching disabled or the client not connected the lookup is skipped
\* and nothing is stored.
C12_CacheFailuresAreSoft ==
    \A c \in Callers :
        /\ (Ended(c) /\ C12_CacheFailed(c)) =>
              /\ p_call[c].pc = "returned"
              /\ p_call[c].ret.kv.cache_hit = PyBool(FALSE)
              /\ IF p_call[c].outputs = NoOutputs
                 THEN "error" \in DOMAIN p_call[c].ret.kv
                 ELSE p_call[c].ret = C12_Computed(c)
        /\ (p_call[c].pc = "returned" /\ p_call[c].outputs # NoOutputs) =>
              p_call[c].ret = C12_Computed(c)
        /\ (Ended(c) /\ (~c_enabled \/ ~c_connected)) =>
              p_call[c].lookup = "skipped" /\ ~p_call[c].stored

\* a call that found undecodable bytes, ran the pipeline, had its write fail
\* while connected, and returned the computed result with its sub-questions
\* and document metadata
C12_Witness ==
    \E c \in Callers :
        /\ p_call[c].pc = "returned"
        /\ p_call[c].lookup = "undecodable"
        /\ c_connected /\ ~p_call[c].stored
        /\ p_call[c].ret = C12_Computed(c)
        /\ Len(p_call[c].ret.kv.sub_questions.questions) >= 1
        /\ Len(p_call[c].ret.kv.document_metadata.items) >= 1

\* longest question string of KeyQuestions
MaxKeyLen == 3
\* question strings over upper and lower case letters and blanks
KeyQuestions == SeqUpTo({"a", "A", "b", " "}, MaxKeyLen)

\* a question with its leading and trailing whitespace removed and its
\* letters lower-cased, written without str.strip and str.lower: the part
\* between the first and the last character that is not whitespace
C13_Normal(q) ==
    LET solid == {i \in 1..Len(q) : q[i] \notin Whitespace} IN
    IF solid = {} THEN <<>>
    ELSE LET first == CHOOSE i \in solid : \A j \in solid : i <= j
             last == CHOOSE i \in solid : \A j \in solid : j <= i
         IN  [i \in 1..(last - first + 1) |->
                 IF q[first + i - 1] = "A" THEN "a"
                 ELSE IF q[first + i - 1] = "B" THEN "b"
                 ELSE q[first + i - 1]]

\* C13: the cache key is case-insensitive and whitespace-trimmed: question
\* strings that are equal after lower-casing and trimming get the same key,
\* so once run_pipeline(q1) has stored its result, a following
\* run_pipeline(q2) whose store read returns is a cache hit that returns the
\* stored result.
C13_SameKeySameEntry ==
    \A c \in Callers :
        /\ p_call[c].pc = "get" =>
              \A q1 \in KeyQuestions :
                  C13_Normal(q1) = C13_Normal(p_call[c].question) =>
                      GenerateCacheKey(q1) = GenerateCacheKey(p_call[c].question)
        /\ (/\ p_call[c].prev # NoResult
            /\ C13_Normal(p_call[c].prev.question) = C13_Normal(p_call[c].question)
            /\ p_call[c].prev.kind = "fresh" /\ p_call[c].prev.stored
            /\ p_call[c].lookup \in LookupReturned) =>
              C3_RepeatsFirst(c)

\* run_pipeline("A ") served from the entry run_pipeline("a") stored
C13_Witness ==
    \E c \in Callers :
        /\ p_call[c].pc = "returned"
        /\ p_call[c].question = <<"A", " ">>
        /\ p_call[c].prev # NoResult
        /\ p_call[c].prev.question = <<"a">>
        /\ p_call[c].prev.kind = "fresh" /\ p_call[c].prev.stored
        /\ p_call[c].ret.kv.cache_hit = PyBool(TRUE)
        /\ p_call[c].ret.kv.answer = p_call[c].prev.ret.kv.answer
        /\ Len(p_call[c].ret.kv.sub_questions.questions) >= 1

\* C14: run_pipeline always terminates: when an external call never
\* completes, the call is cut off by a bound and run_pipeline still
\* eventually returns.
C14_AlwaysTerminates ==
    \A c \in Callers : (p_call[c].pc \in AwaitingPcs) ~> Ended(c)

(***************************************************************************)
(* _extract_document_metadata on the output of the retriever.               *)
(***************************************************************************)
\* most pairs in the retriever output drawn as an input
MaxPairs == 3

\* further documents of the store: an article, and a statute whose
\* case_title payload is the empty string
DocE == Doc("dE", "cE", PyInt(8), [document_id |-> PyStr(<<"5">>), article_title |-> PyStr(<<"U">>)])
DocF == Doc("dF", "cF", PyInt(6), [document_id |-> PyStr(<<"6">>), case_title |-> PyStr(<<>>),
                                   legislation_title |-> PyStr(<<"V">>)])

\* what a retrieval unit may end with: nothing, one document, or four
\* documents of different sources
MetaDocLists == {<<>>, <<DocF>>, <<DocC, DocD>>, <<DocA, DocE, DocC, DocD>>}

\* a sub-question of one character, and one of 31 characters
LongText == [i \in 1..31 |-> IF i = 31 THEN "z" ELSE "q"]
MetaQuestionTexts == {<<"s">>, LongText}

\* the pairs process_query returns, retrievers.py lines 224-232
MetaPairs ==
    {[question |-> q, documents |-> FormatDocumentsForContext(docs).v] :
        q \in MetaQuestionTexts, docs \in MetaDocLists}

\* the results handed to _extract_document_metadata: with the pairs of the
\* retriever, or without a retriever output
MetaInputs ==
    {[hybrid_retriever |-> [question_context_pairs |-> pairs]] :
        pairs \in SeqUpTo(MetaPairs, MaxPairs)}
    \cup {[reasoning_llm |-> [replies |-> <<>>]]}

InitMetadata ==
    /\ f_in \in MetaInputs
    /\ f_pc = "call"
    /\ f_out = NoResult
    /\ CacheIdle /\ RtIdle /\ p_call = <<>>
    /\ CompIdle

\* self._extract_document_metadata(results), line 267
MetaExtract ==
    /\ f_pc = "call"
    /\ f_out' = ExtractDocumentMetadata(f_in)
    /\ f_pc' = "done"
    /\ UNCHANGED <<f_in, notFn>>

NextMetadata == MetaExtract

SpecMetadata == InitMetadata /\ [][NextMetadata]_vars

\* the pairs of an input of _extract_document_metadata
C15_Pairs(results) ==
    IF "hybrid_retriever" \in DOMAIN results
    THEN results["hybrid_retriever"].question_context_pairs ELSE <<>>

\* min(3, number of documents of the pair)
C15_Share(pair) == IF Len(pair.documents) < 3 THEN Len(pair.documents) ELSE 3

\* the entries the pairs before pair i are due
RECURSIVE C15_Before(_, _)
C15_Before(pairs, i) ==
    IF i <= 1 THEN 0 ELSE C15_Before(pairs, i - 1) + C15_Share(pairs[i - 1])

\* the title fields of an entry
C15_Titles(entry) == {f \in DOMAIN entry.kv : \E i \in 1..Len(TitleFields) : TitleFields[i] = f}

\* C15: _extract_document_metadata emits, pair after pair, exactly
\* min(3, number of documents) entries per pair (none for a pair without
\* documents); the entry at position k of its pair has score 1.0 - 0.1*k and
\* one non-empty title, the document's title metadata or else the placeholder
\* built from the question text.
C15_MetadataPerPair ==
    f_pc = "done" =>
        LET pairs == C15_Pairs(f_in)
            out == f_out.items
        IN  /\ f_out.t = "list"
            /\ Len(out) = C15_Before(pairs, Len(pairs) + 1)
            /\ \A i \in 1..Len(pairs) : \A k \in 0..(C15_Share(pairs[i]) - 1) :
                  LET entry == out[C15_Before(pairs, i) + k + 1]
                      doc == pairs[i].documents[k + 1]
                      given == {f \in DOMAIN doc.metadata :
                                   \E j \in 1..Len(TitleFields) : TitleFields[j] = f}
                  IN  /\ entry.kv.score = PyFloat(10 - k)
                      /\ entry.kv.document_id = doc.metadata.document_id
                      /\ Cardinality(C15_Titles(entry)) = 1
                      /\ \A f \in C15_Titles(entry) :
                            /\ Truthy(entry.kv[f])
                            /\ IF given # {}
                               THEN f \in given /\ entry.kv[f] = doc.metadata[f]
                               ELSE entry.kv[f] =
                                        PyStr(<<"Result for: ">>
                                              \o SubSeq(pairs[i].question, 1,
                                                        IF Len(pairs[i].question) < 30
                                                        THEN Len(pairs[i].question) ELSE 30)
                                              \o <<"...">>)

\* three pairs, the first with four documents, the second with none, the
\* third with two: five entries, three of the first pair and two of the third
C15_Witness ==
    /\ f_pc = "done"
    /\ Len(C15_Pairs(f_in)) = 3
    /\ Len(C15_Pairs(f_in)[1].documents) = 4
    /\ Len(C15_Pairs(f_in)[2].documents) = 0
    /\ Len(C15_Pairs(f_in)[3].documents) = 2
    /\ Len(f_out.items) = 5
    /\ f_out.items[4].kv.score = PyFloat(10)
    /\ f_out.items[3].kv.score = PyFloat(8)

(***************************************************************************)
(* The places where a structured reply becomes a Questions object: the      *)
(* validator (questions_obj), _process_pipeline_results (sub_questions) and *)
(* _reconstruct_models.                                                     *)
(***************************************************************************)
\* lists of question mappings and objects, well-formed or not
ReplyLists ==
    SeqUpTo(QuestionDicts, MaxQ) \cup SeqUpTo(QuestionObjs, 1)
    \cup {<<m>> : m \in MalformedItems}
    \cup {<<q, m>> : q \in QuestionDicts, m \in MalformedItems}

\* a haystack ChatMessage, by its attributes
MessageLike == PyObj([content |-> PyStr(<<"x">>), role |-> PyStr(<<"assistant">>)])

\* runtime values of a structured reply, one family per shape
ReplyShapes ==
    QuestionSets
    \cup {PyDict([questions |-> PyList(l)]) : l \in ReplyLists}
    \cup {PyList(l) : l \in ReplyLists}
    \cup {PyTuple(<<PyStr(<<tag>>), PyList(l)>>) :
            tag \in {"questions", "tag"}, l \in SeqUpTo(QuestionDicts, 1) \cup SeqUpTo(QuestionObjs, 1)}
    \cup QuestionDicts \cup QuestionObjs
    \cup {MessageLike, PyNone, PyInt(1), PyStr(<<"x">>), PyDict([questions |-> PyNone])}

\* the pipeline outputs with the reply as query_resolver.structured_reply
ResolverResults(structured_reply) ==
    [query_resolver |-> [structured_reply |-> structured_reply],
     validator |-> [valid_questions |-> ValidatorFallback(<<"a">>)]]

InitNormalize ==
    /\ f_in \in ReplyShapes
    /\ f_pc = "call"
    /\ f_out = NoResult
    /\ CacheIdle /\ RtIdle /\ p_call = <<>>
    /\ CompIdle

\* the reply handed to each of the three places
NormApply ==
    /\ f_pc = "call"
    /\ f_out' = [validator |-> ValidatorCoerce(f_in),
                 result |-> ProcessPipelineResults(ResolverResults(f_in), <<"a">>),
                 cache |-> ReconstructModels(f_in)]
    /\ f_pc' = "done"
    /\ UNCHANGED <<f_in, notFn>>

NextNormalize == NormApply

SpecNormalize == InitNormalize /\ [][NextNormalize]_vars

\* the call of _process_pipeline_results returned a dict whose sub_questions
\* is the Questions object of the questions qs
C16_SubQuestionsAre(qs) ==
    /\ ~f_out.result.raised
    /\ f_out.result.v.kv.sub_questions = Questions(qs)

\* C16: the shape normalization is the same at the validator, in
\* _process_pipeline_results and in _reconstruct_models: for every shape of
\* the reply the three produce the same Questions object.
C16_SameNormalization ==
    f_pc = "done" =>
        \E qs \in SeqUpTo(QuestionObjs, MaxQ) :
            /\ f_out.validator = Ok(Questions(qs))
            /\ C16_SubQuestionsAre(qs)
            /\ f_out.cache = Questions(qs)

\* a question mapping or object as a Question
C17_AsQuestion(v) ==
    IF v.t = "Question" THEN v
    ELSE Question(v.kv.question.s, IF "answer" \in DOMAIN v.kv THEN v.kv.answer ELSE PyNone)

\* C17: a 2-tuple whose second element is a sequence of questions is
\* normalized by _process_pipeline_results to the Questions object of that
\* sequence, same questions, same order.
C17_TupleRecurses ==
    (f_pc = "done" /\ f_in.t = "tuple") =>
        C16_SubQuestionsAre([i \in 1..Len(f_in.items[2].items) |->
                                C17_AsQuestion(f_in.items[2].items[i])])

\* C18: a single mapping or object with a question field and no questions
\* field is wrapped by _process_pipeline_results into a one-element
\* Questions object holding that question and its answer.
C18_SingleQuestionWrapped ==
    (f_pc = "done" /\ f_in \in QuestionDicts \cup QuestionObjs) =>
        C16_SubQuestionsAre(<<C17_AsQuestion(f_in)>>)

\* the reply has one of the shapes _process_pipeline_results recognises
C19_Recognised(v) ==
    \/ v.t = "Questions"
    \/ v.t = "dict" /\ "questions" \in DOMAIN v.kv
    \/ v.t = "list"

\* C19: _process_pipeline_results never raises: for every value of the
\* reply it returns with sub_questions a Questions object, the empty one
\* when the value has none of the recognised shapes.
C19_NormalizationTotal ==
    f_pc = "done" =>
        /\ ~f_out.result.raised
        /\ f_out.result.v.kv.sub_questions.t = "Questions"
        /\ ~C19_Recognised(f_in) => f_out.result.v.kv.sub_questions = Questions(<<>>)

\* C20: when the dense or the sparse embedding list is empty while there are
\* N >= 1 questions, run_async makes no search and no rerank call, does not
\* raise and returns no pair.
C20_EmptyEmbeddingsSkipRetrieval ==
    (RetN >= 1 /\ (r_dense = <<>> \/ r_sparse = <<>>) /\ r_pc # "start") =>
        /\ r_pc = "done"
        /\ r_unit = <<>>
        /\ r_failed = <<>>
        /\ r_out = <<>>

\* two questions with their sparse embeddings and no dense embedding
C20_Witness ==
    /\ r_pc = "done"
    /\ RetN = 2
    /\ r_dense = <<>> /\ Len(r_sparse) = 2
    /\ r_unit = <<>>
    /\ r_out = <<>>

(***************************************************************************)
(* The embedders feeding the retriever, as connect_components wires them.   *)
(***************************************************************************)
\* the questions of a decomposition, not yet answered
InitFanOut ==
    /\ InitEmbed
    /\ \A i \in 1..Len(e_qs.questions) : e_qs.questions[i].answer = PyNone

\* both embedders returned and the pipeline calls the retriever with the
\* validator's questions and the two embedding lists (connections of lines
\* 91-95); the tasks and accumulators of the embedders are gone
FanOutConnect ==
    /\ EmbBothDone
    /\ r_pc = "idle"
    /\ e_task' = [k \in Kinds |-> <<>>]
    /\ e_acc' = [k \in Kinds |-> <<>>]
    /\ r_qs' = e_qs
    /\ r_dense' = e_out["dense"]
    /\ r_sparse' = e_out["sparse"]
    /\ r_pc' = "start"
    /\ UNCHANGED <<r_unit, r_out, r_failed, r_overtook, r_used>>
    /\ UNCHANGED <<e_qs, e_async, e_out, e_pc, valVars, genVars, svcVars>>

NextFanOut ==
    \/ NextEmbed
    \/ FanOutConnect
    \/ NextRetriever

SpecFanOut == InitFanOut /\ [][NextFanOut]_vars

\* C21: index i pairs through every stage: the dense and the sparse
\* embedding at index i are computed from the text of question i, gathered
\* concurrently or not; unit i searches with these two vectors, reranks
\* against the text of question i and its pair carries that text.
C21_PositionalPairing ==
    /\ \A k \in Kinds :
          e_pc[k] = "done" =>
              \A i \in 1..Len(e_out[k]) :
                  e_out[k][i] = Embedding(k, e_qs.questions[i].question)
    /\ \A i \in 1..Len(r_used) :
          /\ r_used[i].search # NoResult =>
                r_used[i].search =
                    [query_embedding |-> Embedding("dense", e_qs.questions[i].question),
                     query_sparse_embedding |-> Embedding("sparse", e_qs.questions[i].question)]
          /\ r_used[i].rerank # NoResult =>
                r_used[i].rerank.query = e_qs.questions[i].question
          /\ r_unit[i].st = "returned" =>
                r_unit[i].pair.question = e_qs.questions[i].question
    /\ r_pc = "done" =>
          \A i \in 1..Len(r_out) : r_out[i].question = e_qs.questions[i].question

\* two questions of different texts, the dense vectors gathered concurrently
\* with the second finished first, both units searched and reranked, the
\* second unit ended before the first
C21_Witness ==
    /\ r_pc = "done"
    /\ EmbN = 2
    /\ e_qs.questions[1].question # e_qs.questions[2].question
    /\ e_async["dense"]
    /\ r_overtook
    /\ Len(r_out) = 2
    /\ \A i \in 1..2 : r_used[i].search # NoResult /\ r_used[i].rerank # NoResult

(***************************************************************************)
(* _format_documents_for_context on a document list, and on its own output. *)
(***************************************************************************)
\* longest document list drawn as an input
MaxDocs == 3

\* another chunk of the case "T", scored like DocA
DocG == Doc("dG", "cG", PyInt(9), [document_id |-> PyStr(<<"7">>), case_title |-> PyStr(<<"T">>)])

FormatDocs == {DocA, DocB, DocC, DocD, DocE, DocF, DocG, DocU}
FormatInputs == SeqUpTo(FormatDocs, MaxDocs)

InitFormat ==
    /\ f_in \in FormatInputs
    /\ f_pc = "call"
    /\ f_out = NoResult
    /\ CacheIdle /\ RtIdle /\ p_call = <<>>
    /\ CompIdle

\* the formatter is run on the documents, and then on what it returned
FmtApply ==
    /\ f_pc = "call"
    /\ f_out' = LET once == FormatDocumentsForContext(f_in) IN
                [once |-> once,
                 twice |-> IF once.raised THEN once ELSE FormatDocumentsForContext(once.v)]
    /\ f_pc' = "done"
    /\ UNCHANGED <<f_in, notFn>>

NextFormat == FmtApply

SpecFormat == InitFormat /\ [][NextFormat]_vars

\* the source key of a document: its title field and value when it has a
\* title, else its document_id (the payload's, else the document's own id)
C22_KeyOfDoc(doc) ==
    LET titled == {i \in 1..Len(TitleFields) :
                      TitleFields[i] \in DOMAIN doc.meta /\ Truthy(doc.meta[TitleFields[i]])}
    IN  IF titled # {}
        THEN LET k == CHOOSE i \in titled : \A j \in titled : i <= j
             IN  <<TitleFields[k], doc.meta[TitleFields[k]]>>
        ELSE IF "document_id" \in DOMAIN doc.meta THEN <<"document_id", doc.meta.document_id>>
        ELSE <<"document_id", doc.id>>

\* the document of the input that the entry kept for its key must come from:
\* the highest-scored with that key, the first of them in input order
C22_Best(docs, key) ==
    LET same == {i \in 1..Len(docs) : C22_KeyOfDoc(docs[i]) = key}
    IN  CHOOSE i \in same :
            \A j \in same : \/ ScoreKey(docs[j]) < ScoreKey(docs[i])
                            \/ ScoreKey(docs[j]) = ScoreKey(docs[i]) /\ i <= j

\* the score of the document an entry was made of
C22_ScoreOf(docs, entry) ==
    ScoreKey(docs[CHOOSE i \in 1..Len(docs) : docs[i].content = entry.content])

\* out is the deduplicated formatting of docs
C22_Deduplicated(docs, out) ==
    LET keys == {C22_KeyOfDoc(docs[i]) : i \in 1..Len(docs)} IN
    /\ Len(out) = Cardinality(keys)
    /\ \A key \in keys :
          \E n \in 1..Len(out) :
              /\ out[n].content = docs[C22_Best(docs, key)].content
              /\ out[n].metadata = RetExtractDocumentMetadata(docs[C22_Best(docs, key)])
    /\ \A m, n \in 1..Len(out) :
          m < n => C22_ScoreOf(docs, out[m]) >= C22_ScoreOf(docs, out[n])

\* C22: for any document list _format_documents_for_context returns at most
\* one entry per source key, the entry of the highest-scored document with
\* that key (the first in input order on a tie), in descending score order.
C22_OneEntryPerSource ==
    f_pc = "done" =>
        /\ ~f_out.once.raised
        /\ C22_Deduplicated(f_in, f_out.once.v)

\* the same for the lists the formatter returns on
C22_WhenReturned ==
    (f_pc = "done" /\ ~f_out.once.raised) => C22_Deduplicated(f_in, f_out.once.v)

\* C23: deduplication is idempotent: the formatter run on its own output
\* gives the result of the first run, one entry per source key.
C23_FormatIdempotent ==
    (/\ f_pc = "done"
     /\ \E i, j \in 1..Len(f_in) : i # j /\ C22_KeyOfDoc(f_in[i]) = C22_KeyOfDoc(f_in[j])) =>
        /\ ~f_out.once.raised
        /\ f_out.twice = f_out.once

\* the rerank call of unit i raised and the unit ended
C24_RerankFailed(i) == "rerank" \in r_failed[i] /\ r_unit[i].st # "rerank"

\* C24: when the rerank call of a sub-question fails after its search returned
\* candidates, the pair holds the search candidates in their pre-rerank
\* order, none of them dropped.
C24_KeepsEveryCandidate ==
    \A i \in 1..Len(r_unit) :
        C24_RerankFailed(i) =>
            /\ r_unit[i].st = "returned"
            /\ [k \in 1..Len(r_unit[i].pair.documents) |-> r_unit[i].pair.documents[k].content]
                   = [k \in 1..Len(r_used[i].rerank.documents) |->
                         r_used[i].rerank.documents[k].content]

\* the position of the candidate an entry was made of
C24_PositionOf(candidates, entry) ==
    CHOOSE k \in 1..Len(candidates) : candidates[k].content = entry.content

\* C24 as amended: when the rerank call of a sub-question fails after its
\* search returned candidates, the documents handed to the formatter are the
\* search candidates, all of them, in their pre-rerank order.  The pair holds
\* what the formatter makes of them: it is not empty and holds, in the
\* candidates' order, one entry per source key of the candidates, made of the
\* best-scored candidate of that key (a candidate sharing its source key with
\* a better one is dropped by the formatter); the unit raises exactly when the
\* formatter does, on a candidate whose source key is unhashable.
C24_FormatsTheCandidates ==
    \A i \in 1..Len(r_unit) :
        C24_RerankFailed(i) =>
            LET candidates == r_used[i].rerank.documents IN
            /\ candidates # <<>>
            /\ r_used[i].format = [documents |-> candidates]
            /\ r_unit[i].st \in {"returned", "raised"}
            /\ r_unit[i].st = "returned" =>
                  LET out == r_unit[i].pair.documents IN
                  /\ out # <<>>
                  /\ C22_Deduplicated(candidates, out)
                  /\ \A m, n \in 1..Len(out) :
                        m < n => C24_PositionOf(candidates, out[m])
                                     < C24_PositionOf(candidates, out[n])
            /\ r_unit[i].st = "raised" =>
                  \E k \in 1..Len(candidates) :
                      C22_KeyOfDoc(candidates[k])[2].t \in {"list", "dict"}

\* the rerank of two chunks of one case failed: the pair keeps the better one
C24_Witness ==
    \E i \in 1..Len(r_unit) :
        /\ C24_RerankFailed(i)
        /\ r_used[i].rerank.documents = <<DocA, DocB>>
        /\ r_used[i].format.documents = <<DocA, DocB>>
        /\ r_unit[i].st = "returned"
        /\ Len(r_unit[i].pair.documents) = 1
        /\ r_unit[i].pair.documents[1].content = DocA.content

\* the connections of connect_components, lines 86-103, as sender and
\* receiver (a prompt builder counted with the generator it feeds)
C25_Feeds ==
    {<<"decomposer", "validator">>,
     <<"validator", "dense_embedder">>, <<"validator", "sparse_embedder">>,
     <<"validator", "hybrid_retriever">>,
     <<"dense_embedder", "hybrid_retriever">>, <<"sparse_embedder", "hybrid_retriever">>,
     <<"hybrid_retriever", "query_resolver">>,
     <<"query_resolver", "reasoning_llm">>}

\* the components that are running or may be started at a position
C25_Running(call) ==
    CASE call.pc = "decomposer" -> {"decomposer"}
      [] call.pc = "validator" -> {"validator"}
      [] call.pc = "embedders" ->
            {k \in {"dense_embedder", "sparse_embedder"} : call.outputs[k] = NoResult}
      [] call.pc = "retriever" -> {"hybrid_retriever"}
      [] call.pc = "resolver" -> {"query_resolver"}
      [] call.pc = "reasoning" -> {"reasoning_llm"}
      [] OTHER -> {}

\* C25: on a cache miss the stages run in the order decompose, validate,
\* the two embedders (in either order), retrieve, resolve, synthesize,
\* metadata extraction and assembly, cache write: no component runs or has
\* finished before each component feeding it has finished, the result is
\* assembled only after the synthesizer finished, and the cache is written
\* only after the result is assembled.
C25_StageOrder ==
    \A c \in Callers :
        LET call == p_call[c]
            finished == {k \in Components : call.outputs[k] # NoResult}
        IN  /\ \A feed \in C25_Feeds :
                  feed[2] \in finished \cup C25_Running(call) => feed[1] \in finished
            /\ C25_Running(call) \cap finished = {}
            /\ call.pc \in {"process", "set"} => finished = Components
            /\ call.pc = "set" =>
                  /\ call.result # NoResult
                  /\ {"answer", "sub_questions", "document_metadata"} \subseteq DOMAIN call.result.kv
            /\ call.stored => finished = Components /\ call.pc = "returned"

\* a miss that went through every stage and wrote the cache
C25_Witness ==
    \E c \in Callers :
        /\ p_call[c].pc = "returned"
        /\ p_call[c].stored
        /\ \A k \in Components : p_call[c].outputs[k] # NoResult
        /\ p_call[c].ret.kv.cache_hit = PyBool(FALSE)

\* the dense embedder is still to run when the sparse one has finished
C25_EmbeddersEitherOrder ==
    \E c \in Callers :
        /\ p_call[c].pc = "embedders"
        /\ p_call[c].outputs["sparse_embedder"] # NoResult
        /\ p_call[c].outputs["dense_embedder"] = NoResult

(***************************************************************************)
(* Threads constructing a singleton service for the first time.  The class  *)
(* follows one of two patterns:                                             *)
(*   new_init  DenseEmbedderService, SparseEmbedderService, RankerService:  *)
(*             __new__ and __init__ each take the class's RLock             *)
(*   meta      SingletonMeta.__call__: the whole construction under the     *)
(*             metaclass's RLock                                            *)
(* s_svc holds the class attributes (_instance, _initialized), the model    *)
(* attribute of the instance, the owner of the lock, each thread's position *)
(* and what it obtained, and counts of the _initialize runs.                *)
(***************************************************************************)
\* number of threads constructing the service
MaxThreads == 3
Threads == 1..MaxThreads

InitSingleton ==
    /\ s_svc \in {[pattern |-> pat, lock |-> 0, instance |-> "None", initialized |-> FALSE,
                   model |-> "unset", runs |-> 0, loaded |-> 0, failed |-> FALSE,
                   pc |-> [t \in Threads |-> "start"],
                   got |-> [t \in Threads |-> "nothing"]] : pat \in {"new_init", "meta"}}
    /\ ValIdle /\ GenIdle /\ EmbIdle /\ RetIdle
    /\ CacheIdle /\ RtIdle /\ p_call = <<>> /\ FnIdle

NeedsInit_Always(initialized) == TRUE

\* "if not self._initialized", embedders.py line 29
NeedsInit(initialized) == ~initialized

\* "with cls._lock" of __new__ is entered, embedders.py line 21
SglNewEnter(t) ==
    /\ s_svc.pattern = "new_init"
    /\ s_svc.pc[t] = "start"
    /\ s_svc.lock = 0
    /\ s_svc' = [s_svc EXCEPT !.lock = t, !.pc[t] = "new"]
    /\ UNCHANGED notSgl

\* lines 22-24: the instance is created if there is none, the lock released
\* and the instance returned to type.__call__
SglNew(t) ==
    /\ s_svc.pc[t] = "new"
    /\ s_svc' = [s_svc EXCEPT !.instance = "obj", !.lock = 0, !.pc[t] = "init_wait"]
    /\ UNCHANGED notSgl

\* "with self._lock" of __init__ is entered, line 28
SglInitEnter(t) ==
    /\ s_svc.pc[t] = "init_wait"
    /\ s_svc.lock = 0
    /\ s_svc' = [s_svc EXCEPT !.lock = t, !.pc[t] = "init"]
    /\ UNCHANGED notSgl

\* lines 29-30: _initialize is entered unless the class is initialized; else
\* the lock is released and the constructor returns the instance
SglInitCheck(t) ==
    /\ s_svc.pc[t] = "init"
    /\ s_svc' = IF NeedsInit(s_svc.initialized)
                THEN [s_svc EXCEPT !.pc[t] = "load", !.runs = @ + 1]
                ELSE [s_svc EXCEPT !.lock = 0, !.pc[t] = "returned", !.got[t] = s_svc.instance]
    /\ UNCHANGED notSgl

\* lines 35-39: the model object is built and assigned to self.embedder, or
\* its constructor raises and the exception leaves __init__
SglLoad(t) ==
    /\ s_svc.pc[t] = "load"
    /\ \/ s_svc' = [s_svc EXCEPT !.model = "built", !.pc[t] = "warm"]
       \/ s_svc' = [s_svc EXCEPT !.lock = 0, !.pc[t] = "raised", !.failed = TRUE]
    /\ UNCHANGED notSgl

\* lines 41-42 and 31: warm_up returns, _initialized is set, the lock is
\* released and the constructor returns; or warm_up raises
SglWarmUp(t) ==
    /\ s_svc.pc[t] = "warm"
    /\ \/ s_svc' = [s_svc EXCEPT !.model = "warm", !.initialized = TRUE, !.loaded = @ + 1,
                                 !.lock = 0, !.pc[t] = "returned", !.got[t] = s_svc.instance]
       \/ s_svc' = [s_svc EXCEPT !.lock = 0, !.pc[t] = "raised", !.failed = TRUE]
    /\ UNCHANGED notSgl

\* SingletonMeta.__call__, singleton.py lines 18-20: the lock is taken; with
\* an instance registered it is released and the instance returned
SglMetaEnter(t) ==
    /\ s_svc.pattern = "meta"
    /\ s_svc.pc[t] = "start"
    /\ s_svc.lock = 0
    /\ s_svc' = IF s_svc.instance = "None"
                THEN [s_svc EXCEPT !.lock = t, !.pc[t] = "meta_build", !.runs = @ + 1]
                ELSE [s_svc EXCEPT !.pc[t] = "returned", !.got[t] = s_svc.instance]
    /\ UNCHANGED notSgl

\* singleton.py lines 21-23: super().__call__ builds the instance, which is
\* registered and returned; or the construction raises
SglMetaBuild(t) ==
    /\ s_svc.pc[t] = "meta_build"
    /\ \/ s_svc' = [s_svc EXCEPT !.instance = "obj", !.model = "warm", !.initialized = TRUE,
                                 !.loaded = @ + 1, !.lock = 0,
                                 !.pc[t] = "returned", !.got[t] = "obj"]
       \/ s_svc' = [s_svc EXCEPT !.lock = 0, !.pc[t] = "raised", !.failed = TRUE]
    /\ UNCHANGED notSgl

NextSingleton ==
    \E t \in Threads :
        \/ SglNewEnter(t)
        \/ SglNew(t)
        \/ SglInitEnter(t)
        \/ SglInitCheck(t)
        \/ SglLoad(t)
        \/ SglWarmUp(t)
        \/ SglMetaEnter(t)
        \/ SglMetaBuild(t)

SpecSingleton == InitSingleton /\ [][NextSingleton]_vars

\* the threads inside _initialize (or inside the construction under the
\* metaclass's lock)
C26_Loading == {t \in Threads : s_svc.pc[t] \in {"load", "warm", "meta_build"}}

\* C26: for any number of threads constructing the service concurrently for
\* the first time, _initialize runs exactly once (no two runs overlap, no
\* second run follows a completed one, and without a failing model load there
\* is one run in all), and every caller obtains the same instance with its
\* model attribute set.
C26_InitializedOnce ==
    /\ Cardinality(C26_Loading) <= 1
    /\ s_svc.loaded <= 1
    /\ s_svc.loaded = 1 => s_svc.initialized /\ s_svc.model = "warm"
    /\ ~s_svc.failed => s_svc.runs <= 1
    /\ \A t \in Threads :
          s_svc.pc[t] = "returned" =>
              /\ s_svc.got[t] = "obj"
              /\ s_svc.loaded = 1
              /\ s_svc.model = "warm"
              /\ \A u \in Threads : s_svc.pc[u] = "returned" => s_svc.got[u] = s_svc.got[t]

\* three threads, all past __new__ before any of them entered __init__, and
\* all three returned after a single run of _initialize
C26_Witness ==
    /\ s_svc.pattern = "new_init"
    /\ \A t \in Threads : s_svc.pc[t] = "returned" /\ s_svc.got[t] = "obj"
    /\ s_svc.runs = 1
    /\ s_svc.loaded = 1

(***************************************************************************)
(* The cache protocol of one run_pipeline call.                             *)
(***************************************************************************)
\* the lookup of the call returned an entry that run_pipeline takes as a
\* result (the call has not written, so the entry is the one it read)
C27_Hit(call) ==
    /\ call.lookup = "value"
    /\ ~call.stored
    /\ Truthy(CachedValue(c_store[CallKey(call)]))

\* the lookup of the call found no usable entry under its key
C27_FoundNothing(lookup) == lookup \in {"absent", "undecodable"}

\* run_pipeline of the call made the awaited call name
C27_Called(call, name) == \E i \in 1..Len(call.trace) : call.trace[i] = name

C27_Protocol(call) ==
    \* one read, first of all, with no stage run before it ended
    /\ call.trace # <<>> /\ call.trace[1] = "get_cached_result"
    /\ \A i \in 2..Len(call.trace) : call.trace[i] # "get_cached_result"
    /\ call.pc = "get" => call.trace = <<"get_cached_result">> /\ call.outputs = NoOutputs
    \* at most one write, after pipeline.run_async returned and its results
    \* were processed
    /\ call.stored \/ call.pc = "set" => C27_Called(call, "cache_result")
    /\ C27_Called(call, "cache_result") =>
          /\ call.trace = <<"get_cached_result", "run_async", "cache_result">>
          /\ call.pc \in {"set", "returned"}
          /\ \A k \in OutputComponents : call.outputs[k] # NoResult
          /\ call.pc = "returned" => "error" \notin DOMAIN call.ret.kv
    \* a hit: no stage and no write
    /\ C27_Hit(call) => call.trace = <<"get_cached_result">>
    /\ call.pc \in {"returned", "raised"} /\ call.trace = <<"get_cached_result">> =>
          /\ call.lookup = "value"
          /\ call.outputs = NoOutputs
          /\ ~call.stored
    /\ call.pc = "returned" /\ call.ret.kv.cache_hit = PyBool(TRUE) =>
          call.trace = <<"get_cached_result">>
    \* the error result: no write
    /\ call.pc = "returned" /\ "error" \in DOMAIN call.ret.kv =>
          /\ call.trace = <<"get_cached_result", "run_async">>
          /\ ~call.stored
    \* after an error run that had found no entry, the same question misses
    \* again and is processed
    /\ (/\ call.prev # NoResult
        /\ call.prev.kind = "error"
        /\ C27_FoundNothing(call.prev.lookup)
        /\ call.prev.question = call.question
        /\ call.pc # "get")
       => /\ call.lookup # "value"
          /\ Len(call.trace) >= 2 /\ call.trace[2] = "run_async"

\* the store changes only in the step in which the write of a call whose
\* pipeline completed returns
C27_WriteStep ==
    c_store' # c_store =>
        \E c \in Callers :
            /\ p_call[c].pc = "set"
            /\ p_call'[c].pc = "returned" /\ p_call'[c].stored
            /\ p_call'[c].ret.kv.cache_hit = PyBool(FALSE)
            /\ c_store' = [c_store EXCEPT ![CallKey(p_call[c])] = c_store'[CallKey(p_call[c])]]

\* C27: each run_pipeline call reads the cache once, before any stage, and
\* writes it at most once: a hit runs no stage and writes nothing; on a miss
\* the write comes only after the pipeline completed without an exception; a
\* run that returns the error result never writes, so the same question is
\* processed again on the next call.
C27_CacheProtocol ==
    /\ [](\A c \in Callers : p_call[c].pc \notin {"idle", "hung"} => C27_Protocol(p_call[c]))
    /\ [][C27_WriteStep]_vars

\* a call that ended with the error result after a lookup that found nothing,
\* followed by a call for the same question that ran the pipeline again and
\* wrote its result
C27_Witness ==
    \E c \in Callers :
        /\ p_call[c].pc = "returned"
        /\ p_call[c].prev # NoResult
        /\ p_call[c].prev.kind = "error"
        /\ p_call[c].prev.lookup = "absent"
        /\ p_call[c].prev.question = p_call[c].question
        /\ p_call[c].stored
        /\ p_call[c].trace = <<"get_cached_result", "run_async", "cache_result">>

\* a call served from the cache
C27_WitnessHit ==
    \E c \in Callers :
        /\ p_call[c].pc = "returned"
        /\ p_call[c].ret.kv.cache_hit = PyBool(TRUE)
        /\ p_call[c].trace = <<"get_cached_result">>

(***************************************************************************)
(* Which component's questions a fresh result carries.                      *)
(***************************************************************************)
\* a call that returned a result computed by the pipeline
C28_Fresh(call) ==
    /\ call.pc = "returned"
    /\ "error" \notin DOMAIN call.ret.kv
    /\ call.ret.kv.cache_hit = PyBool(FALSE)

\* the generation call of query_resolver failed: the except branch built its
\* output
C28_ResolverFailed(call) ==
    call.outputs["query_resolver"].replies = <<<<"Error generating structured response">>>>

\* the results of the call without the output of query_resolver
C28_WithoutResolver(call) ==
    LET results == IncludedOutputs(call.outputs) IN
    [k \in DOMAIN results \ {"query_resolver"} |-> results[k]]

\* C28: the sub_questions of a fresh result is the resolver's structured
\* reply whenever the resolver produced that output, an empty question set
\* included; the validator's questions are used only when the resolver's
\* output is absent; so after a resolver failure the result carries the
\* resolver's empty set and not the validated sub-questions.
C28_ResolverReplyWins ==
    \A c \in Callers :
        LET call == p_call[c] IN
        C28_Fresh(call) =>
            /\ call.outputs["query_resolver"] # NoResult
            /\ call.ret.kv.sub_questions = call.outputs["query_resolver"].structured_reply
            /\ C28_ResolverFailed(call) =>
                  /\ call.ret.kv.sub_questions = Questions(<<>>)
                  /\ call.outputs["validator"].valid_questions.questions # <<>>
            /\ ProcessPipelineResults(C28_WithoutResolver(call), call.question).v.kv.sub_questions
                  = call.outputs["validator"].valid_questions

\* a fresh result after a resolver failure: the validator delivered two
\* questions, the result carries none
C28_Witness ==
    \E c \in Callers :
        /\ C28_Fresh(p_call[c])
        /\ C28_ResolverFailed(p_call[c])
        /\ Len(p_call[c].outputs["validator"].valid_questions.questions) = 2
        /\ p_call[c].ret.kv.sub_questions = Questions(<<>>)

(***************************************************************************)
(* Two run_pipeline calls in flight on one event loop, sharing the cache.   *)
(* Each coroutine runs from one await to the next without interruption, so  *)
(* the steps of the two calls interleave at the actions of the call.        *)
(***************************************************************************)
TwoCallers == {"c1", "c2"}

\* the cache connected and empty, both callers about to call
InitConcurrent ==
    /\ c_enabled = TRUE /\ c_client = "Redis" /\ c_connected = TRUE
    /\ c_store = [k \in StoreKeys |-> PyNone]
    /\ p_call = [c \in TwoCallers |-> IdleCall]
    /\ RtIdle
    /\ FnIdle
    /\ CompIdle

\* what the components of one run meet: the three generation backends, the
\* embedders failing or not, the documents of the retrieval units, and an
\* exception of pipeline.run_async itself.  The decomposer answers and the
\* dense embedder delivers; the later components vary, so that two runs for
\* one question end with different results
RunEnvs ==
    [decomposer : {b \in DecomposerBackends : ~b.raised},
     dense_failed : {FALSE}, sparse_failed : BOOLEAN,
     docs : {<<DocA, DocB>>}, resolver : ResolverBackends, reasoning : ReasoningBackends,
     error : {"none"} \cup PipelineErrors]

\* what an embedder delivers for the questions
RunEmbeddings(kind, questions, failed) ==
    LET all == [i \in 1..Len(questions) |-> Embedding(kind, questions[i].question)]
    IN  [embeddings |-> IF failed THEN EmbOnError(Take(all, Len(all) - 1)) ELSE all]

\* the outputs of the components after the validator, in the order of the
\* connections: PipeEmbed, PipeRetrieve, PipeResolve and PipeReason
RunOutputs(call, env, decomposed, validated, resolved, reasoned) ==
    LET questions == validated.valid_questions.questions
        dense == RunEmbeddings("dense", questions, env.dense_failed)
        sparse == RunEmbeddings("sparse", questions, env.sparse_failed)
        n == Min3(Len(questions), Len(dense.embeddings), Len(sparse.embeddings))
        units == [i \in 1..n |-> RetFinishUnit(questions[i].question, env.docs)]
        pairs == [question_context_pairs |-> RetrieverResult(units)]
    IN  [call EXCEPT !.outputs =
            [k \in Components |->
                CASE k = "decomposer" -> decomposed
                  [] k = "validator" -> validated
                  [] k = "dense_embedder" -> dense
                  [] k = "sparse_embedder" -> sparse
                  [] k = "hybrid_retriever" -> pairs
                  [] k = "query_resolver" -> resolved
                  [] k = "reasoning_llm" -> reasoned],
                     !.pc = "process",
                     !.synth_failed = env.reasoning.raised]

\* the await of pipeline.run_async ends, lines 180-183 and 210-219, taken as
\* one step: the stages of PipeDecompose to PipeReason touch nothing but the
\* results of their own run
PipeRunAsync(c) ==
    LET call == p_call[c] IN
    /\ call.pc = "decomposer"
    /\ \E env \in RunEnvs :
       \E d \in {GeneratorRunAsync("Questions", env.decomposer)} :
       \E v \in {IF d.raised THEN d
                 ELSE ValidatorRunAsync(d.v.structured_reply, call.question)} :
       \E r \in {GeneratorRunAsync("Questions", env.resolver)} :
       \E s \in {GeneratorRunAsync("None", env.reasoning)} :
        p_call' = [p_call EXCEPT ![c] =
            IF env.error # "none" THEN Failed(call, env.error)
            ELSE IF d.raised THEN Failed(call, d.exc)
            ELSE IF v.raised THEN Failed(call, v.exc)
            ELSE IF r.raised THEN Failed(call, r.exc)
            ELSE IF s.raised THEN Failed(call, s.exc)
            ELSE RunOutputs(call, env, d.v, v.v, r.v, s.v)]
    /\ UNCHANGED <<cacheVars, rtVars, notSvc>>

NextConcurrent ==
    \/ \E c \in TwoCallers, q \in PipeQuestions : p_call[c].pc = "idle" /\ PipeCall(c, q)
    \/ \E c \in TwoCallers : PipeGetReturns(c)
    \/ \E c \in TwoCallers : PipeGetRaises(c)
    \/ \E c \in TwoCallers : PipeRunAsync(c)
    \/ \E c \in TwoCallers : PipeProcess(c)
    \/ \E c \in TwoCallers : PipeSetReturns(c)
    \/ \E c \in TwoCallers : PipeSetRaises(c)
    \/ \E c \in TwoCallers : PipeHang(c)

SpecConcurrent == InitConcurrent /\ [][NextConcurrent]_vars

\* the lookup of the call returned while the store held no entry under its
\* key: it ended before any call had written
C29_Missed(call) == call.lookup = "absent"

\* the result run_pipeline builds from the outputs of the call's own run
C29_OwnResult(call) ==
    SetItem(SetItem(ProcessPipelineResults(IncludedOutputs(call.outputs), call.question).v,
                    "processing_time", Elapsed),
            "cache_hit", PyBool(FALSE))

C29_BothRun ==
    \A c \in TwoCallers : \A d \in TwoCallers \ {c} :
        LET call == p_call[c]
            other == p_call[d]
        IN  (/\ C29_Missed(call) /\ C29_Missed(other)
             /\ CallKey(call) = CallKey(other))
            => \* the pipeline is run for this call too
               /\ Len(call.trace) >= 2 /\ call.trace[2] = "run_async"
               \* a result is the caller's own, never flagged as a hit
               /\ call.pc = "returned" => call.ret.kv.cache_hit = PyBool(FALSE)
               /\ (call.pc = "returned" /\ "error" \notin DOMAIN call.ret.kv) =>
                     /\ call.ret = C29_OwnResult(call)
                     /\ C27_Called(call, "cache_result")
               \* after both writes the entry is one of the two whole results
               /\ call.stored /\ other.stored =>
                     c_store[CallKey(call)] \in {SerializedResult(call.ret).v,
                                                 SerializedResult(other.ret).v}

\* a write that returns leaves the writer's whole result as the entry,
\* whatever was there; nothing else changes the store
C29_WriteStep ==
    /\ \A c \in TwoCallers :
          p_call[c].pc = "set" /\ p_call'[c].pc = "returned" /\ p_call'[c].stored =>
              c_store'[CallKey(p_call[c])] = SerializedResult(p_call'[c].ret).v
    /\ c_store' # c_store =>
          \E c \in TwoCallers : p_call[c].pc = "set" /\ p_call'[c].stored

\* C29: no request coalescing: when two run_pipeline calls for the same
\* question both finish their cache lookup before either has written, both
\* run the full pipeline and both write the cache; each caller receives its own
\* result with cache_hit = false, and the entry left in the cache is the whole
\* result of whichever write finished last.
C29_NoCoalescing == []C29_BothRun /\ [][C29_WriteStep]_vars

\* both calls missed, ran, returned different results and wrote; the entry is
\* the result of c2 and not the one of c1
C29_Witness ==
    /\ C29_Missed(p_call["c1"]) /\ C29_Missed(p_call["c2"])
    /\ p_call["c1"].pc = "returned" /\ p_call["c2"].pc = "returned"
    /\ p_call["c1"].stored /\ p_call["c2"].stored
    /\ p_call["c1"].ret # p_call["c2"].ret
    /\ c_store[CallKey(p_call["c1"])] = SerializedResult(p_call["c2"].ret).v
    /\ c_store[CallKey(p_call["c1"])] # SerializedResult(p_call["c1"].ret).v

(***************************************************************************)
(* The connection flag of the cache module.                                 *)
(***************************************************************************)
\* a client object was constructed and its first ping failed or raised
C30_Disconnected == c_enabled /\ c_client = "Redis" /\ ~c_connected

\* with the client constructed and not connected, no call is waiting for the
\* store, and the call in progress skipped its lookup and stored nothing
C30_NoStoreContact ==
    C30_Disconnected =>
        \A c \in Callers :
            /\ p_call[c].pc \notin {"get", "set"}
            /\ p_call[c].pc \notin {"idle", "hung"} =>
                  /\ p_call[c].lookup = "skipped"
                  /\ ~p_call[c].stored
                  /\ p_call[c].pc = "returned" =>
                        p_call[c].ret.kv.cache_hit = PyBool(FALSE)

\* once a client object exists, neither it nor the flag changes; the flag
\* changes only in a step that starts without a client, where the
\* initialisation runs again
C30_FlagStep ==
    /\ c_client # "None" => c_client' = c_client /\ c_connected' = c_connected
    /\ c_connected' # c_connected => c_enabled /\ c_client = "None" /\ c_client' = "Redis"

\* C30: the connection flag is decided once: after a client object has been
\* constructed _is_connected never changes; after a first ping that failed or
\* raised every get_cached_result returns absent and every cache_result
\* returns False without contacting the store; when the construction of the
\* client raised, the next cache call runs the initialisation again.
C30_FlagDecidedOnce == []C30_NoStoreContact /\ [][C30_FlagStep]_vars

\* a call that ended without a connection (its client construction raised)
\* followed by a call that read the store: the initialisation was retried
C30_Witness ==
    \E c \in Callers :
        /\ p_call[c].prev # NoResult
        /\ ~p_call[c].prev.connected
        /\ p_call[c].prev.lookup = "skipped"
        /\ c_enabled /\ c_connected
        /\ p_call[c].lookup \in LookupReturned

\* two calls in a row without a connection, the client constructed
C30_WitnessNoReconnect ==
    \E c \in Callers :
        /\ C30_Disconnected
        /\ p_call[c].pc = "returned"
        /\ p_call[c].prev # NoResult
        /\ ~p_call[c].prev.connected
        /\ p_call[c].lookup = "skipped" /\ p_call[c].prev.lookup = "skipped"
        /\ C27_Called(p_call[c], "cache_result") /\ ~p_call[c].stored

====
